---- MODULE Spec2Model ----
(***************************************************************************)
(* State-machine model of the WiseFood data catalog entity layer:          *)
(* src/src/entity.py (Entity, Artifact, Guide), src/src/entities/guides.py *)
(* (the Guide class the guides router uses), src/src/backend/elastic.py,   *)
(* src/src/backend/redis.py and src/src/routers/artifacts.py.              *)
(*                                                                         *)
(* The search store, the cache and the object storage are variables; every *)
(* bundler operation (create_entity, get_entity, patch_entity,             *)
(* delete_entity, upload) is one atomic action.  Calls into the client     *)
(* libraries (redis, minio) either succeed or raise; that choice is an     *)
(* input of the action.                                                    *)
(*                                                                         *)
(* Clock: datetime.now() is modelled by the variable now, the latest value *)
(* read and persisted.  A stamp taken in a later operation is strictly     *)
(* later (the operations are separated by a store round trip); the second  *)
(* read inside upsert_system_fields is the first one or later.             *)
(* uuid.uuid4() is modelled by a counter: every draw is a new value.       *)
(***************************************************************************)
EXTENDS Integers, Sequences, FiniteSets, TLC

VARIABLES
    cfg,        \* config.settings: the keys the entity layer reads
    guides,     \* search store, index "guides": document id -> document
    artifacts,  \* search store, index "artifacts": document id -> document
    objects,    \* object storage bucket: the set of object names
    cache,      \* redis: key -> cached object
    now,        \* latest datetime.now() value persisted
    nextUuid,   \* number of uuid4 values handed out
    last,       \* the last operation: its inputs, its outcome, the calls it made
    orgs,       \* search store, index "organizations": document id -> document
    threads,    \* requests in flight: thread -> its position and local variables
    pool,       \* ElasticsearchClientSingleton._pool: the clients appended so far
    counter,    \* ElasticsearchClientSingleton._counter
    lock,       \* ElasticsearchClientSingleton._lock: its holder, or NoneV
    bootstraps, \* how many times _bootstrap has run
    callers,    \* threads calling get_client: caller -> position and locals
    picked,     \* the selections made, in the order they returned
    minio,      \* MinioClientSingleton: _lock, _initialized, client, admin, pools built
    mthreads,   \* threads calling MinioClientSingleton.get_client / get_admin
    handed,     \* the instances those calls returned, in the order they returned
    boot,       \* the run of the prototype's Stores.bootstrap: position, calls made
    creating    \* Guide.create calls in flight: thread -> position and locals

\* the state of the search client singleton
poolVars == <<pool, counter, lock, bootstraps, callers, picked>>

\* the state of the object storage singleton
minioVars == <<minio, mthreads, handed>>

\* the state outside the search store, the cache and the two client singletons
extra == <<minioVars, boot, creating>>

\* the variables the guide and artifact operations taken as one step leave alone
aux == <<orgs, threads, poolVars, extra>>

vars == <<cfg, guides, artifacts, objects, cache, now, nextUuid, last, aux>>

\* ---------------------------------------------------------------- bounds
MaxClock == 4
MaxUuid == 2
\* config.settings["ELASTICSEARCH_POOL_SIZE"], and the get_client calls of one thread
PoolSize == 2
MaxCalls == 2

Slugs == {"a", "b"}
Creators == {"alice"}
\* "entity": class Guide of entity.py; "entities": class Guide of entities/guides.py
GuideClasses == {"entity", "entities"}

\* ---------------------------------------------------------------- values
None == [none |-> TRUE]
NoneV == "None"

\* An identifier string, by its lexical shape: "urn:<type>:<name>", a UUID, or
\* any other string.
Urn(t, s) == [kind |-> "urn", type |-> t, name |-> s, uuid |-> 0]
Raw(s) == [kind |-> "raw", type |-> "", name |-> s, uuid |-> 0]
Uuid(n) == [kind |-> "uuid", type |-> "", name |-> "", uuid |-> n]

Uuids == {Uuid(n) : n \in 1..MaxUuid}

\* the URNs of the guides
GuideUrns == {Urn("guide", s) : s \in Slugs}
UrnsOf(S) == {u \in GuideUrns : u.name \in S}

\* dict helpers
Empty == [x \in {} |-> 0]
Put(f, k, v) == [x \in DOMAIN f \cup {k} |-> IF x = k THEN v ELSE f[x]]
Drop(f, k) == [x \in DOMAIN f \ {k} |-> f[x]]
Merge(old, new) == [k \in DOMAIN old \cup DOMAIN new |-> IF k \in DOMAIN new THEN new[k] ELSE old[k]]

\* ---------------------------------------------------------------- elastic.py
\* ElasticsearchClientSingleton.get_entity: the document, or None
es_get_entity(index, urn) == IF urn \in DOMAIN index THEN index[urn] ELSE None

\* index_entity: client.index(id=document["urn"], document=document)
es_index_entity(index, document) ==
    IF "urn" \in DOMAIN document
    THEN [err |-> "ok", index |-> Put(index, document["urn"], document)]
    ELSE [err |-> "KeyError", index |-> index]

\* update_entity as a full replacement of the stored document (what index does)
es_update_entity_replacing(index, document) ==
    IF "urn" \notin DOMAIN document THEN [err |-> "KeyError", index |-> index]
    ELSE IF document["urn"] \notin DOMAIN index THEN [err |-> "StoreError", index |-> index]
    ELSE [err |-> "ok", index |-> Put(index, document["urn"], document)]

\* update_entity: client.update(id=document["urn"], doc=document): a partial
\* merge into the stored document; the store answers 404 when it is missing
es_update_entity(index, document) ==
    IF "urn" \notin DOMAIN document THEN [err |-> "KeyError", index |-> index]
    ELSE IF document["urn"] \notin DOMAIN index THEN [err |-> "StoreError", index |-> index]
    ELSE [err |-> "ok",
          index |-> Put(index, document["urn"], Merge(index[document["urn"]], document))]

\* delete_entity: client.delete(id=urn); the store answers 404 when it is missing
es_delete_entity(index, urn) ==
    IF urn \in DOMAIN index THEN [err |-> "ok", index |-> Drop(index, urn)]
    ELSE [err |-> "StoreError", index |-> index]

\* search_entities with qspec {"query": {"term": {"id": uuid}}}: the keys of the hits
es_search_by_id(index, uuid) ==
    {k \in DOMAIN index : "id" \in DOMAIN index[k] /\ index[k]["id"] = uuid}

\* ---------------------------------------------------------------- entity.py: Entity
\* Entity.invalidate_cache: REDIS.delete when caching is on; a failure is logged
invalidate_cache(c, urn, rok) ==
    IF cfg.CACHE_ENABLED /\ rok THEN Drop(c, urn) ELSE c

\* Entity.cache: REDIS.set when caching is on; a failure is logged
cache_set(c, urn, obj, rok) ==
    IF cfg.CACHE_ENABLED /\ rok THEN Put(c, urn, obj) ELSE c

\* Entity.resolve_type + Entity.validate_existence: urn.split(":")[1], then for a
\* guide URN the guide's cache entry is invalidated.  It never looks the URN up.
validate_existence(c, urn, rok) ==
    IF urn.kind # "urn" THEN [err |-> "DataError", cache |-> c]
    ELSE IF urn.type = "guide" THEN [err |-> "ok", cache |-> invalidate_cache(c, urn, rok)]
    ELSE [err |-> "ok", cache |-> c]

\* Entity.resolve_urn, given the hits of the search by id: no hit, or any
\* failure, is NotFoundError; else the urn of the first hit
first_hit_urn(index, hits) ==
    IF hits = {} THEN [err |-> "NotFoundError", urn |-> None, es |-> 1]
    ELSE [err |-> "ok", urn |-> index[CHOOSE k \in hits : TRUE]["urn"], es |-> 1]

\* Entity.resolve_urn
resolve_urn(index, uuid) == first_hit_urn(index, es_search_by_id(index, uuid))

\* utils.is_valid_uuid: whether the string has the lexical shape of a UUID
is_valid_uuid(identifier) == identifier.kind = "uuid"

\* the text of an identifier that is not a UUID, as f"urn:{self.name}:{identifier}"
\* embeds it
text(identifier) ==
    IF identifier.kind = "urn" THEN "urn:" \o identifier.type \o ":" \o identifier.name
    ELSE identifier.name

\* get_identifier handing a guide UUID through unresolved, as it does for artifacts
get_identifier_unresolved(name, index, identifier) ==
    IF is_valid_uuid(identifier) THEN [err |-> "ok", urn |-> identifier, es |-> 0]
    ELSE IF identifier.kind = "urn" /\ identifier.type = name
    THEN [err |-> "ok", urn |-> identifier, es |-> 0]
    ELSE [err |-> "ok", urn |-> Urn(name, text(identifier)), es |-> 0]

\* Entity.get_identifier
get_identifier(name, index, identifier) ==
    IF is_valid_uuid(identifier)
    THEN IF name = "artifact" THEN [err |-> "ok", urn |-> identifier, es |-> 0]
         ELSE resolve_urn(index, identifier.uuid)
    ELSE IF identifier.kind = "urn" /\ identifier.type = name
    THEN [err |-> "ok", urn |-> identifier, es |-> 0]
    ELSE [err |-> "ok", urn |-> Urn(name, text(identifier)), es |-> 0]

\* ---------------------------------------------------------------- schemas.py
GuideSchemaFields ==
    {"urn", "id", "title", "content", "status", "creator", "created_at", "updated_at", "artifacts"}
GuideSchemaRequired == {"urn", "id", "title", "content", "created_at", "updated_at"}
GuideSchemaDefault(k) ==
    CASE k = "status" -> "active"
      [] k = "creator" -> NoneV
      [] OTHER -> {}

\* GuideSchema.model_validate(obj).model_dump(mode="json"): extra keys are
\* forbidden, required keys must be there, defaults fill the rest
GuideSchema_dump(obj) ==
    IF DOMAIN obj \subseteq GuideSchemaFields /\ GuideSchemaRequired \subseteq DOMAIN obj
    THEN [err |-> "ok",
          ret |-> [k \in GuideSchemaFields |-> IF k \in DOMAIN obj THEN obj[k] ELSE GuideSchemaDefault(k)]]
    ELSE [err |-> "ValidationError", ret |-> None]

\* ---------------------------------------------------------------- Artifact.fetch
\* the outcome of a fetch whose validate_existence call gave v: v's error, or
\* what the search gives
fetch_validated(v, err, results) ==
    IF v.err # "ok" THEN [err |-> v.err, results |-> {}, cache |-> v.cache, es |-> 0]
    ELSE [err |-> err, results |-> results, cache |-> v.cache, es |-> 1]

\* entity.py Artifact.fetch: search_entities returns a list, and the list is
\* then subscripted with "results"
Artifact_fetch(a, c, parent_urn, rok) ==
    fetch_validated(validate_existence(c, parent_urn, rok), "TypeError", {})

\* entities/artifacts.py (not in the tree) ARTIFACT.fetch: the artifacts whose
\* parent_urn is the given URN
EntitiesArtifact_fetch(a, c, parent_urn, rok) ==
    fetch_validated(validate_existence(c, parent_urn, rok), "ok",
                    {a[k] : k \in {x \in DOMAIN a : a[x]["parent_urn"] = parent_urn}})

ARTIFACT_fetch(cls, a, c, parent_urn, rok) ==
    IF cls = "entity" THEN Artifact_fetch(a, c, parent_urn, rok)
    ELSE EntitiesArtifact_fetch(a, c, parent_urn, rok)

\* ---------------------------------------------------------------- Guide.get
\* Guide.get, once the document is there: the artifacts fetched (outcome f) are
\* attached to it
attach_artifacts(entity, f) ==
    [err |-> f.err,
     obj |-> IF f.err = "ok" THEN Put(entity, "artifacts", f.results) ELSE None,
     cache |-> f.cache,
     es |-> 1 + f.es]

\* Guide.get (both classes): point lookup, NotFoundError when absent, else the
\* artifacts are fetched and attached
Guide_get(cls, g, a, c, urn, rok) ==
    IF urn \notin DOMAIN g
    THEN [err |-> "NotFoundError", obj |-> None, cache |-> c, es |-> 1]
    ELSE attach_artifacts(es_get_entity(g, urn), ARTIFACT_fetch(cls, a, c, urn, rok))

\* Entity.get_cached after a cache miss: r is the outcome of self.get(urn); the
\* object is cached, then validated and dumped
cache_and_dump(r, urn, rok) ==
    IF r.err # "ok" THEN [err |-> r.err, ret |-> None, cache |-> r.cache, es |-> r.es]
    ELSE [err |-> GuideSchema_dump(r.obj).err, ret |-> GuideSchema_dump(r.obj).ret,
          cache |-> cache_set(r.cache, urn, r.obj, rok), es |-> r.es]

\* Entity.get_cached
get_cached(cls, g, a, c, urn, rok) ==
    IF cfg.CACHE_ENABLED /\ rok /\ urn \in DOMAIN c
    THEN [err |-> GuideSchema_dump(c[urn]).err, ret |-> GuideSchema_dump(c[urn]).ret,
          cache |-> c, es |-> 0]
    ELSE cache_and_dump(Guide_get(cls, g, a, c, urn, rok), urn, rok)

\* an outcome r, with n store calls made before it
AfterCalls(r, n) == [r EXCEPT !.es = @ + n]

\* Entity.get_entity, once get_identifier gave i
get_resolved(cls, g, a, c, i, rok) ==
    IF i.err # "ok" THEN [err |-> i.err, ret |-> None, cache |-> c, es |-> i.es]
    ELSE AfterCalls(get_cached(cls, g, a, c, i.urn, rok), i.es)

\* Entity.get_entity
get_entity(cls, g, a, c, identifier, rok) ==
    get_resolved(cls, g, a, c, get_identifier("guide", g, identifier), rok)

\* ---------------------------------------------------------------- creation and update schemas
GuideCreationFields == {"urn", "title", "content", "status", "artifacts"}
GuideCreationRequired == {"urn", "title", "content"}
GuideCreationDefault(k) == IF k = "status" THEN "active" ELSE {}

\* GuideCreationSchema.model_validate(spec)
GuideCreation_valid(spec) ==
    /\ DOMAIN spec \subseteq GuideCreationFields
    /\ GuideCreationRequired \subseteq DOMAIN spec
    /\ spec["urn"] \in Slugs

\* guide_data.model_dump(mode="json"): every field of the schema, defaults filled
GuideCreation_dump(spec) ==
    [k \in GuideCreationFields |-> IF k \in DOMAIN spec THEN spec[k] ELSE GuideCreationDefault(k)]

\* GuideUpdateSchema without its at_least_one_field validator
GuideUpdate_valid_without_validator(spec) ==
    DOMAIN spec \subseteq {"title", "content", "status"}

\* GuideUpdateSchema.at_least_one_field: all fields None is rejected
GuideUpdate_valid(spec) ==
    /\ DOMAIN spec \subseteq {"title", "content", "status"}
    /\ \E k \in DOMAIN spec : spec[k] # NoneV

\* model_dump(mode="json", exclude_unset=True, exclude_none=True)
GuideUpdate_dump_exclude_none(spec) ==
    [k \in {x \in DOMAIN spec : spec[x] # NoneV} |-> spec[k]]

\* ---------------------------------------------------------------- upsert_system_fields
\* the urn and id fix-up of upsert_system_fields
fix_urn_and_id(name, spec, update, uuid) ==
    IF "urn" \in DOMAIN spec /\ ~update
    THEN Put(Put(spec, "urn", Urn(name, spec["urn"])), "id", uuid)
    ELSE IF ~update /\ name = "artifact" /\ "id" \notin DOMAIN spec
    THEN Put(spec, "id", uuid)
    ELSE spec

\* the timestamps of upsert_system_fields: updated_at is read first
stamp(spec, update, t1, t2) ==
    IF update
    THEN Put(Drop(spec, "creator"), "updated_at", t1)
    ELSE Put(Put(spec, "updated_at", t1), "created_at", t2)

\* Entity.upsert_system_fields(spec, update); t1 and t2 are the two clock reads
\* in program order, uuid the uuid4 draw
upsert_system_fields(name, spec, update, t1, t2, uuid) ==
    stamp(fix_urn_and_id(name, spec, update, uuid), update, t1, t2)

\* ---------------------------------------------------------------- Guide.create
\* Outcome of a write: the error kind, the stores after it, the store calls
\* made, and the clock and uuid counter after it.
Out(err, g, c, es, t, u) ==
    [err |-> err, g |-> g, c |-> c, es |-> es, t |-> t, u |-> u]

\* the try block around a store write whose outcome is w: any failure is
\* InternalError; a new document persists the clock value t and the uuid u
written(w, c, es, t, u) ==
    IF w.err # "ok" THEN Out("InternalError", w.index, c, es, now, nextUuid)
    ELSE Out("ok", w.index, c, es, t, u)

\* the document Guide.create indexes
guide_dict(spec, creator, d) ==
    upsert_system_fields("guide", Put(GuideCreation_dump(spec), "creator", creator),
                         FALSE, now + 1, now + 1 + d, nextUuid + 1)

\* entity.py Guide.create, once get_entity(spec["urn"]) gave existing: found is
\* ConflictError, NotFoundError lets the creation go on
create_unless_found(existing, g, spec, creator, d) ==
    IF existing.err = "ok"
    THEN Out("ConflictError", g, existing.cache, existing.es, now, nextUuid)
    ELSE IF existing.err # "NotFoundError"
    THEN Out(existing.err, g, existing.cache, existing.es, now, nextUuid)
    ELSE written(es_index_entity(g, guide_dict(spec, creator, d)),
                 existing.cache, existing.es + 1, now + 2, nextUuid + 1)

\* entity.py Guide.create: existence check through get_entity, then index
EntityGuide_create(g, a, c, spec, creator, d, rok) ==
    IF ~GuideCreation_valid(spec) THEN Out("DataError", g, c, 0, now, nextUuid)
    ELSE create_unless_found(get_entity("entity", g, a, c, Raw(spec["urn"]), rok),
                             g, spec, creator, d)

\* entities/guides.py Guide.create, once validate_existence gave v:
\* ConflictError is raised unless validate_existence raised NotFoundError
create_unless_validated(v, g, spec, creator, d) ==
    IF v.err # "NotFoundError"
    THEN Out(IF v.err = "ok" THEN "ConflictError" ELSE v.err, g, v.cache, 0, now, nextUuid)
    ELSE written(es_index_entity(g, guide_dict(spec, creator, d)), v.cache, 1,
                 now + 2, nextUuid + 1)

\* entities/guides.py Guide.create
EntitiesGuide_create(g, a, c, spec, creator, d, rok) ==
    IF ~GuideCreation_valid(spec) THEN Out("DataError", g, c, 0, now, nextUuid)
    ELSE create_unless_validated(validate_existence(c, Urn("guide", spec["urn"]), rok),
                                 g, spec, creator, d)

Guide_create(cls, g, a, c, spec, creator, d, rok) ==
    IF cls = "entity" THEN EntityGuide_create(g, a, c, spec, creator, d, rok)
    ELSE EntitiesGuide_create(g, a, c, spec, creator, d, rok)

\* ---------------------------------------------------------------- Guide.patch
\* the partial document Guide.patch sends to update_entity, from the dumped body
guide_patch_dict(urn, dumped) ==
    Put(upsert_system_fields("guide", dumped, TRUE, now + 1, now + 1, 0), "urn", urn)

\* Guide.patch, once the existence check gave v after es store calls
update_if_exists(v, es, g, urn, dumped) ==
    IF v.err # "ok" THEN Out(v.err, g, v.cache, es, now, nextUuid)
    ELSE written(es_update_entity(g, guide_patch_dict(urn, dumped)), v.cache, es + 1,
                 now + 1, nextUuid)

\* self.get(urn) as Guide.patch of entity.py uses it: its error, the cache it leaves
existing_guide(r) == [err |-> r.err, cache |-> r.cache]

\* entity.py Guide.patch: validation, self.get(urn), then update_entity with
\* model_dump(exclude_unset=True)
EntityGuide_patch(g, a, c, urn, spec, rok) ==
    IF ~GuideUpdate_valid(spec) THEN Out("DataError", g, c, 0, now, nextUuid)
    ELSE IF urn \notin DOMAIN g THEN Out("NotFoundError", g, c, 1, now, nextUuid)
    ELSE update_if_exists(existing_guide(Guide_get("entity", g, a, c, urn, rok)), 2, g, urn, spec)

\* entities/guides.py Guide.patch: validation, validate_existence, update_entity
\* with model_dump(exclude_unset=True, exclude_none=True)
EntitiesGuide_patch(g, a, c, urn, spec, rok) ==
    IF ~GuideUpdate_valid(spec) THEN Out("DataError", g, c, 0, now, nextUuid)
    ELSE update_if_exists(validate_existence(c, urn, rok), 0, g, urn,
                          GuideUpdate_dump_exclude_none(spec))

Guide_patch(cls, g, a, c, urn, spec, rok) ==
    IF cls = "entity" THEN EntityGuide_patch(g, a, c, urn, spec, rok)
    ELSE EntitiesGuide_patch(g, a, c, urn, spec, rok)

\* ---------------------------------------------------------------- Guide.delete
\* Guide.delete (both classes): delete_entity, any failure is InternalError
Guide_delete(g, c, urn) == written(es_delete_entity(g, urn), c, 1, now, nextUuid)

\* ---------------------------------------------------------------- Artifact (entity.py)
MAX_FILE_SIZE == 1073741824

ArtifactCreationFields ==
    {"parent_urn", "title", "description", "language", "file_url", "file_type", "file_size"}
ArtifactCreationRequired == {"parent_urn", "title", "file_url", "file_type", "file_size"}

\* ArtifactCreationSchema.model_validate(spec): extra="forbid", parent_urn a UrnStr,
\* file_size >= 0
ArtifactCreation_valid(spec) ==
    /\ DOMAIN spec \subseteq ArtifactCreationFields
    /\ ArtifactCreationRequired \subseteq DOMAIN spec
    /\ spec["parent_urn"].kind = "urn"
    /\ spec["file_size"] >= 0

\* artifact_data.model_dump(mode="json")
ArtifactCreation_dump(spec) ==
    [k \in ArtifactCreationFields |-> IF k \in DOMAIN spec THEN spec[k] ELSE NoneV]

\* Outcome of Artifact.create: the error kind, the new id, the stores, the calls
AOut(err, id, a, c, es, t, u) ==
    [err |-> err, id |-> id, a |-> a, c |-> c, es |-> es, t |-> t, u |-> u]

\* the document Artifact.create indexes
artifact_data(spec, creator, d) ==
    upsert_system_fields("artifact", Put(ArtifactCreation_dump(spec), "creator", creator),
                         FALSE, now + 1, now + 1 + d, nextUuid + 1)

\* Artifact.create, from the index_entity call on: w is its outcome
artifact_indexed(w, doc, c) ==
    IF w.err # "ok" THEN AOut("InternalError", 0, w.index, c, 1, now, nextUuid)
    ELSE AOut("ok", doc["id"], w.index, c, 1, now + 2, nextUuid + 1)

\* Artifact.create, once validate_existence(parent_urn) gave v: the parent's
\* cache entry is invalidated, the system fields are stamped, the document indexed
create_validated(v, a, spec, creator, d, rok) ==
    IF v.err # "ok" THEN AOut(v.err, 0, a, v.cache, 0, now, nextUuid)
    ELSE artifact_indexed(es_index_entity(a, artifact_data(spec, creator, d)),
                          artifact_data(spec, creator, d),
                          invalidate_cache(v.cache, spec["parent_urn"], rok))

\* Artifact.create
Artifact_create(a, c, spec, creator, d, rok) ==
    IF ~ArtifactCreation_valid(spec) THEN AOut("DataError", 0, a, c, 0, now, nextUuid)
    ELSE create_validated(validate_existence(c, spec["parent_urn"], rok), a, spec, creator, d, rok)

\* Entity.get_cached over Artifact.get: the cache, then the point lookup
Artifact_get_cached(a, c, urn, rok) ==
    IF cfg.CACHE_ENABLED /\ rok /\ urn \in DOMAIN c
    THEN [err |-> "ok", ret |-> c[urn], cache |-> c, es |-> 0]
    ELSE IF urn \notin DOMAIN a
    THEN [err |-> "NotFoundError", ret |-> None, cache |-> c, es |-> 1]
    ELSE [err |-> "ok", ret |-> a[urn], cache |-> cache_set(c, urn, a[urn], rok), es |-> 1]

\* ARTIFACT.get_entity(id): get_identifier passes a UUID through
Artifact_get_entity(a, c, id, rok) ==
    Artifact_get_cached(a, c, get_identifier("artifact", a, id).urn, rok)

\* Artifact.upload: the metadata the upload hands to Artifact.create
artifact_spec(id, parent_urn, file_size) ==
    [id |-> id, parent_urn |-> parent_urn, type |-> "file", title |-> "f.pdf",
     description |-> NoneV, language |-> NoneV, file_url |-> "url", file_s3_url |-> "s3",
     file_type |-> "application/pdf", file_size |-> file_size]

\* the object name <parent type>/<parent slug>/<id><ext>
object_name(parent_urn, id) == [parent |-> parent_urn, id |-> id]

MinioCall(call, ok) == [call |-> call, ok |-> ok]

\* Outcome of api_upload_artifact + Artifact.upload.  inner is the error raised
\* inside the try block around create / get_entity, mio the object-storage calls.
UOut(err, inner, ret, a, c, o, es, mio, t, u) ==
    [err |-> err, inner |-> inner, ret |-> ret, a |-> a, c |-> c, o |-> o, es |-> es,
     mio |-> mio, t |-> t, u |-> u]

\* an except block that raises again without removing the object
reraise_without_cleanup(err, a, c, o, name, es, rm, t) ==
    UOut(err, err, None, a, c, o, es,
         <<MinioCall("MINIO_CLIENT", TRUE), MinioCall("put_object", TRUE)>>,
         t, nextUuid + 1)

\* the except block of Artifact.upload: remove_object is called (rm: it
\* succeeds), a failure of it is logged, and the error caught is raised again
cleanup_and_reraise(err, a, c, o, name, es, rm, t) ==
    UOut(err, err, None, a, c, IF rm THEN o \ {name} ELSE o, es,
         <<MinioCall("MINIO_CLIENT", TRUE), MinioCall("put_object", TRUE),
           MinioCall("remove_object", rm)>>,
         t, nextUuid + 1)

\* the try block of Artifact.upload after self.create gave cr and
\* self.get_entity gave r; o holds the object put under name
created_and_fetched(cr, r, o, name, rm) ==
    IF r.err # "ok" THEN cleanup_and_reraise(r.err, cr.a, r.cache, o, name, cr.es + r.es, rm, cr.t)
    ELSE UOut("ok", "ok", r.ret, cr.a, r.cache, o, cr.es + r.es,
              <<MinioCall("MINIO_CLIENT", TRUE), MinioCall("put_object", TRUE)>>, cr.t, cr.u)

\* the try block of Artifact.upload, once self.create gave cr
upload_created(cr, o, name, rm, rok) ==
    IF cr.err # "ok" THEN cleanup_and_reraise(cr.err, cr.a, cr.c, o, name, cr.es, rm, now)
    ELSE created_and_fetched(cr, Artifact_get_entity(cr.a, cr.c, Uuid(cr.id), rok), o, name, rm)

\* Artifact.upload, once validate_existence(parent_urn) gave v.  mc: MINIO_CLIENT()
\* returns a client; put: "ok", "S3Error" or another exception
upload_validated(v, a, o, file_size, parent_urn, creator, mc, put, rm, d, rok) ==
    IF v.err # "ok" THEN UOut(v.err, "", None, a, v.cache, o, 0, <<>>, now, nextUuid)
    ELSE IF ~mc
    THEN UOut("InternalError", "", None, a, v.cache, o, 0,
              <<MinioCall("MINIO_CLIENT", FALSE)>>, now, nextUuid)
    ELSE IF put # "ok"
    THEN UOut(IF put = "S3Error" THEN "InternalError" ELSE "Exception", "", None,
              a, v.cache, o, 0,
              <<MinioCall("MINIO_CLIENT", TRUE), MinioCall("put_object", FALSE)>>,
              now, nextUuid)
    ELSE upload_created(Artifact_create(a, v.cache,
                                        artifact_spec(nextUuid + 1, parent_urn, file_size),
                                        creator, d, rok),
                        o \cup {object_name(parent_urn, nextUuid + 1)},
                        object_name(parent_urn, nextUuid + 1), rm, rok)

\* Artifact.upload
Artifact_upload(a, c, o, file_size, parent_urn, creator, mc, put, rm, d, rok) ==
    IF file_size = 0 THEN UOut("DataError", "", None, a, c, o, 0, <<>>, now, nextUuid)
    ELSE IF file_size > MAX_FILE_SIZE
    THEN UOut("DataError", "", None, a, c, o, 0, <<>>, now, nextUuid)
    ELSE upload_validated(validate_existence(c, parent_urn, rok), a, o, file_size,
                          parent_urn, creator, mc, put, rm, d, rok)

\* routers/artifacts.py api_upload_artifact: the size checks of the endpoint, then
\* ARTIFACT.upload
api_upload_artifact(a, c, o, file_size, parent_urn, creator, mc, put, rm, d, rok) ==
    IF file_size > MAX_FILE_SIZE \/ file_size = 0
    THEN UOut("DataError", "", None, a, c, o, 0, <<>>, now, nextUuid)
    ELSE Artifact_upload(a, c, o, file_size, parent_urn, creator, mc, put, rm, d, rok)

\* ---------------------------------------------------------------- the last operation
\* What the last operation was called with and what came of it: pre is the guide
\* document stored under the URN it addressed before it ran (None when there was
\* none), res the error kind or "ok", ret the value returned, es the number of
\* calls to the search store, mio the calls to the object storage in order,
\* inner the error raised inside upload's try block.
NoLast ==
    [op |-> "none", cls |-> "", ident |-> None, spec |-> Empty, pre |-> None, res |-> "",
     ret |-> None, es |-> 0, mio |-> <<>>, size |-> 0, inner |-> ""]

Done(op, cls, ident, spec, pre, res, ret, es) ==
    [op |-> op, cls |-> cls, ident |-> ident, spec |-> spec, pre |-> pre, res |-> res,
     ret |-> ret, es |-> es, mio |-> <<>>, size |-> 0, inner |-> ""]

\* ---------------------------------------------------------------- actions
\* The requests in flight on one guide URN: G a get_entity, W a patch_entity
\* or delete_entity, L a get_entity that starts after W has returned.
Threads == {"G", "W", "L"}
Idle == [pc |-> "idle", op |-> "", spec |-> Empty, obj |-> None, res |-> "", ret |-> None]

\* The threads that call ELASTIC_CLIENT.get_client(), and one that is not in a call
Callers == {"c1", "c2"}
NotCalling == [pc |-> "idle", calls |-> 0, i |-> 0, index |-> 0, k |-> 0, len |-> 0, booted |-> 0]

\* two requests that create a guide, and one that has not started
CreateThreads == {"A", "B"}
NotCreating == [pc |-> "idle", cls |-> "", spec |-> Empty, existing |-> None, res |-> "",
                doc |-> None]

NotInMinio == [pc |-> "idle", op |-> "", calls |-> 0, waited |-> FALSE, pool |-> 0]

Init ==
    /\ cfg \in [CACHE_ENABLED : BOOLEAN]
    /\ guides = Empty
    /\ artifacts = Empty
    /\ objects = {}
    /\ cache = Empty
    /\ now = 0
    /\ nextUuid = 0
    /\ last = NoLast
    /\ orgs = Empty
    /\ threads = [t \in Threads |-> Idle]
    /\ pool = <<>>
    /\ counter = 0
    /\ lock = NoneV
    /\ bootstraps = 0
    /\ callers = [c \in Callers |-> NotCalling]
    /\ picked = <<>>
    /\ minio = [lock |-> NoneV, initialized |-> FALSE, client |-> None, admin |-> None,
                built |-> 0]
    /\ mthreads = [c \in Callers |-> NotInMinio]
    /\ handed = <<>>
    /\ boot = [pc |-> "start", i |-> 1, created |-> {}, attempts |-> <<>>, failed |-> {}]
    /\ creating = [t \in CreateThreads |-> NotCreating]

\* GUIDE.get_entity(identifier)
GetEntity(cls, identifier, rok) ==
    \E i \in {get_identifier("guide", guides, identifier)} :
    \E r \in {get_entity(cls, guides, artifacts, cache, identifier, rok)} :
        /\ cache' = r.cache
        /\ last' = Done("get_entity", cls, identifier, Empty, es_get_entity(guides, i.urn),
                        r.err, r.ret, r.es)
        /\ UNCHANGED <<aux, cfg, guides, artifacts, objects, now, nextUuid>>

\* GUIDE.create_entity(spec, creator): create, then get_entity(spec["urn"])
CreateEntity(cls, spec, creator, d, rok) ==
    \E w \in {Guide_create(cls, guides, artifacts, cache, spec, creator, d, rok)} :
    \E r \in {get_entity(cls, w.g, artifacts, w.c, Raw(spec["urn"]), rok)} :
    \E pre \in {es_get_entity(guides, Urn("guide", spec["urn"]))} :
        /\ w.t <= MaxClock
        /\ w.u <= MaxUuid
        /\ guides' = w.g
        /\ now' = w.t
        /\ nextUuid' = w.u
        /\ IF w.err # "ok"
           THEN /\ cache' = w.c
                /\ last' = Done("create_entity", cls, Raw(spec["urn"]), spec, pre, w.err, None, w.es)
           ELSE /\ cache' = r.cache
                /\ last' = Done("create_entity", cls, Raw(spec["urn"]), spec, pre, r.err, r.ret,
                                w.es + r.es)
        /\ UNCHANGED <<aux, cfg, artifacts, objects>>

\* GUIDE.patch_entity(identifier, spec), once get_identifier gave the URN:
\* invalidate_cache, patch, then get_entity
PatchResolved(cls, identifier, i, spec, rok) ==
    \E w \in {Guide_patch(cls, guides, artifacts, invalidate_cache(cache, i.urn, rok),
                          i.urn, spec, rok)} :
    \E r \in {get_entity(cls, w.g, artifacts, w.c, i.urn, rok)} :
    \E pre \in {es_get_entity(guides, i.urn)} :
        /\ w.t <= MaxClock
        /\ guides' = w.g
        /\ now' = w.t
        /\ IF w.err # "ok"
           THEN /\ cache' = w.c
                /\ last' = Done("patch_entity", cls, identifier, spec, pre, w.err, None,
                                i.es + w.es)
           ELSE /\ cache' = r.cache
                /\ last' = Done("patch_entity", cls, identifier, spec, pre, r.err, r.ret,
                                i.es + w.es + r.es)
        /\ UNCHANGED <<aux, cfg, artifacts, objects, nextUuid>>

\* GUIDE.patch_entity(identifier, spec)
PatchEntity(cls, identifier, spec, rok) ==
    \E i \in {get_identifier("guide", guides, identifier)} :
        IF i.err # "ok"
        THEN /\ last' = Done("patch_entity", cls, identifier, spec, None, i.err, None, i.es)
             /\ UNCHANGED <<aux, cfg, guides, artifacts, objects, cache, now, nextUuid>>
        ELSE PatchResolved(cls, identifier, i, spec, rok)

\* GUIDE.delete_entity(identifier), once get_identifier gave the URN:
\* invalidate_cache, delete
DeleteResolved(cls, identifier, i, rok) ==
    \E w \in {Guide_delete(guides, invalidate_cache(cache, i.urn, rok), i.urn)} :
        /\ guides' = w.g
        /\ cache' = w.c
        /\ last' = Done("delete_entity", cls, identifier, Empty, es_get_entity(guides, i.urn),
                        w.err, IF w.err = "ok" THEN [deleted |-> i.urn] ELSE None,
                        i.es + w.es)
        /\ UNCHANGED <<aux, cfg, artifacts, objects, now, nextUuid>>

\* GUIDE.delete_entity(identifier)
DeleteEntity(cls, identifier, rok) ==
    \E i \in {get_identifier("guide", guides, identifier)} :
        IF i.err # "ok"
        THEN /\ last' = Done("delete_entity", cls, identifier, Empty, None, i.err, None, i.es)
             /\ UNCHANGED <<aux, cfg, guides, artifacts, objects, cache, now, nextUuid>>
        ELSE DeleteResolved(cls, identifier, i, rok)

\* POST /api/v1/artifacts: ARTIFACT.create_entity(spec, creator)
ArtifactCreateEntity(spec, creator, d, rok) ==
    \E w \in {Artifact_create(artifacts, cache, spec, creator, d, rok)} :
    \E r \in {Artifact_get_entity(w.a, w.c, Uuid(w.id), rok)} :
    \E pre \in {es_get_entity(guides, spec["parent_urn"])} :
        /\ w.t <= MaxClock
        /\ w.u <= MaxUuid
        /\ artifacts' = w.a
        /\ now' = w.t
        /\ nextUuid' = w.u
        /\ IF w.err # "ok"
           THEN /\ cache' = w.c
                /\ last' = Done("artifact_create_entity", "", spec["parent_urn"], spec, pre,
                                w.err, None, w.es)
           ELSE /\ cache' = r.cache
                /\ last' = Done("artifact_create_entity", "", spec["parent_urn"], spec, pre,
                                r.err, r.ret, w.es + r.es)
        /\ UNCHANGED <<aux, cfg, guides, objects>>

\* POST /api/v1/artifacts/upload
Upload(file_size, parent_urn, creator, mc, put, rm, d, rok) ==
    \E w \in {api_upload_artifact(artifacts, cache, objects, file_size, parent_urn, creator,
                                  mc, put, rm, d, rok)} :
        /\ w.t <= MaxClock
        /\ w.u <= MaxUuid
        /\ artifacts' = w.a
        /\ cache' = w.c
        /\ objects' = w.o
        /\ now' = w.t
        /\ nextUuid' = w.u
        /\ last' = [Done("upload", "", parent_urn, Empty, es_get_entity(guides, parent_urn),
                         w.err, w.ret, w.es)
                      EXCEPT !.mio = w.mio, !.size = file_size, !.inner = w.inner]
        /\ UNCHANGED <<aux, cfg, guides>>

\* ---------------------------------------------------------------- inputs
\* guide creation bodies over the slugs S: a valid one, and one without its title
CreateSpecs(S) ==
    {[urn |-> s, title |-> "v1", content |-> "v1"] : s \in S}
        \cup {[urn |-> s, content |-> "v1"] : s \in S}

\* guide update bodies: a field is unset, None, or a value
PatchSpecs ==
    {Empty,
     [title |-> "v2"],
     [status |-> "deleted"],
     [title |-> NoneV],
     [title |-> NoneV, status |-> "deleted"],
     [title |-> "v2", status |-> "deleted"]}

\* Whether the redis calls of an operation succeed; none is made with caching off
RedisOutcomes == IF cfg.CACHE_ENABLED THEN BOOLEAN ELSE {TRUE}

\* the guide operations on the slugs S
GuideNext(S) ==
    \/ \E cls \in GuideClasses, i \in UrnsOf(S) \cup {Raw(s) : s \in S} \cup Uuids,
          rok \in RedisOutcomes :
          GetEntity(cls, i, rok)
    \/ \E cls \in GuideClasses, spec \in CreateSpecs(S), creator \in Creators, d \in {0, 1},
          rok \in RedisOutcomes :
          CreateEntity(cls, spec, creator, d, rok)
    \/ \E cls \in GuideClasses, i \in UrnsOf(S) \cup Uuids, spec \in PatchSpecs,
          rok \in RedisOutcomes :
          PatchEntity(cls, i, spec, rok)
    \/ \E cls \in GuideClasses, i \in UrnsOf(S) \cup Uuids, rok \in RedisOutcomes :
          DeleteEntity(cls, i, rok)

\* artifact creation bodies for the parents P: a valid one, and one with a
\* negative file_size
ArtifactSpecs(P) ==
    {[parent_urn |-> p, title |-> "t", file_url |-> "url", file_type |-> "application/pdf",
      file_size |-> n] : p \in P, n \in {1, -1}}

UploadSizes == {0, 1, MAX_FILE_SIZE, MAX_FILE_SIZE + 1}
PutOutcomes == {"ok", "S3Error", "Exception"}

\* the artifact operations on parents that are guides with a slug of S, and the
\* creation and deletion of those guides
ArtifactNext(S) ==
    \/ \E spec \in ArtifactSpecs(UrnsOf(S)), creator \in Creators, d \in {0, 1},
          rok \in RedisOutcomes :
          ArtifactCreateEntity(spec, creator, d, rok)
    \/ \E n \in UploadSizes, p \in UrnsOf(S), creator \in Creators,
          mc \in BOOLEAN, put \in PutOutcomes, rm \in BOOLEAN, d \in {0, 1}, rok \in RedisOutcomes :
          Upload(n, p, creator, mc, put, rm, d, rok)
    \/ \E spec \in CreateSpecs(S), creator \in Creators, d \in {0, 1}, rok \in RedisOutcomes :
          CreateEntity("entity", spec, creator, d, rok)
    \/ \E i \in UrnsOf(S), rok \in RedisOutcomes :
          DeleteEntity("entity", i, rok)

Next == GuideNext({"a"})

Spec == Init /\ [][Next]_vars

NextArtifact == ArtifactNext({"a"})

SpecArtifact == Init /\ [][NextArtifact]_vars

\* lookups by URN, bare slug and UUID with guides stored under the slugs S
LookupNext(S) ==
    \/ \E cls \in GuideClasses, i \in UrnsOf(S) \cup {Raw(s) : s \in S} \cup Uuids,
          rok \in RedisOutcomes :
          GetEntity(cls, i, rok)
    \/ \E spec \in CreateSpecs(S), creator \in Creators, d \in {0, 1}, rok \in RedisOutcomes :
          CreateEntity("entity", spec, creator, d, rok)
    \/ \E i \in UrnsOf(S), rok \in RedisOutcomes :
          DeleteEntity("entity", i, rok)

NextLookup == LookupNext(Slugs)

SpecLookup == Init /\ [][NextLookup]_vars

\* ---------------------------------------------------------------- properties
\* the last operation was a guide creation with a valid body for a slug under
\* which no guide was stored
CreatedOnFreeSlug ==
    /\ last.op = "create_entity"
    /\ GuideCreation_valid(last.spec)
    /\ last.pre = None

\* C1: for every valid guide creation input with slug s such that no guide
\* urn:guide:s is stored, create_entity (create followed by get_entity on the
\* URN) succeeds and returns a document whose urn is urn:guide:s, whose id is a
\* UUID no other stored document carries, and whose artifacts list is empty.
C1_CreateThenGet ==
    CreatedOnFreeSlug =>
        /\ last.res = "ok"
        /\ last.ret["urn"] = Urn("guide", last.spec["urn"])
        /\ last.ret["id"] = nextUuid
        /\ \A k \in DOMAIN guides \ {last.ret["urn"]} : guides[k]["id"] # last.ret["id"]
        /\ last.ret["artifacts"] = {}

\* C2: the document persisted by a guide create carries created_at equal to
\* updated_at.
C2_CreatedEqualsUpdated ==
    (CreatedOnFreeSlug /\ Urn("guide", last.spec["urn"]) \in DOMAIN guides) =>
        LET doc == guides[Urn("guide", last.spec["urn"])]
        IN  doc["created_at"] = doc["updated_at"]

\* C3: when two guide creations with the same slug are issued one after the
\* other (the slug being free before the first), the first succeeds and the
\* second fails with ConflictError, and the document stored by the first
\* creation is unchanged after the second attempt.
C3_SecondCreateConflicts ==
    [][(/\ CreatedOnFreeSlug
        /\ last'.op = "create_entity"
        /\ GuideCreation_valid(last'.spec)
        /\ last'.cls = last.cls
        /\ last'.spec["urn"] = last.spec["urn"])
       => (/\ last.res = "ok"
           /\ last'.res = "ConflictError"
           /\ guides' = guides)]_vars

\* the fields a patch body names: those it carries a value for, and updated_at
PatchedKeys(spec) == {k \in DOMAIN spec : spec[k] # NoneV} \cup {"updated_at"}

\* the last operation was a patch, through the Guide class of
\* entities/guides.py, of a stored guide with a body naming at least one field
PatchedExisting ==
    /\ last.op = "patch_entity"
    /\ last.cls = "entities"
    /\ last.pre # None
    /\ GuideUpdate_valid(last.spec)

\* C4: for an existing guide patched with a non-empty subset of the updatable
\* fields, every field the patch does not name (id, urn, creator and created_at
\* among them) keeps its pre-patch value in the stored document, and updated_at
\* after the patch is strictly greater than before it.
C4_PatchFrame ==
    PatchedExisting =>
        LET doc == guides[last.pre["urn"]]
        IN  /\ DOMAIN doc = DOMAIN last.pre
            /\ \A k \in DOMAIN last.pre \ PatchedKeys(last.spec) : doc[k] = last.pre[k]
            /\ \A k \in PatchedKeys(last.spec) \ {"updated_at"} : doc[k] = last.spec[k]
            /\ doc["updated_at"] > last.pre["updated_at"]

C4_Witness ==
    /\ PatchedExisting
    /\ last.spec = [title |-> "v2"]
    /\ last.pre["title"] = "v1"
    /\ guides[last.pre["urn"]]["title"] = "v2"
    /\ guides[last.pre["urn"]]["content"] = "v1"
    /\ guides[last.pre["urn"]]["created_at"] = last.pre["created_at"]

\* the last operation was a patch with a body in which every field is absent
PatchedWithNothing ==
    /\ last.op = "patch_entity"
    /\ \A k \in DOMAIN last.spec : last.spec[k] = NoneV

Observed(r) == [err |-> r.err, ret |-> r.ret, cache |-> r.cache]

\* C6: for a stored guide with URN u and id i, get_entity(u) and get_entity(i)
\* return identical results (the same document or the same error, leaving the
\* same cache), under either Guide class and whether redis answers or not.
C6_UrnAndUuidAgree ==
    \A k \in DOMAIN guides, cls \in GuideClasses, rok \in RedisOutcomes :
        Observed(get_entity(cls, guides, artifacts, cache, guides[k]["urn"], rok))
            = Observed(get_entity(cls, guides, artifacts, cache, Uuid(guides[k]["id"]), rok))

C6_Witness ==
    /\ Cardinality(DOMAIN guides) = 2
    /\ last.op = "get_entity"
    /\ last.ident.kind = "uuid"
    /\ last.res = "ok"
    /\ last.pre # None
    /\ last.ret["urn"] = last.pre["urn"]
    /\ last.ret["id"] = last.ident.uuid

\* the last operation was an upload during which every call to the object
\* storage succeeded
UploadedWithStorageUp ==
    /\ last.op = "upload"
    /\ \A n \in 1..Len(last.mio) : last.mio[n].ok

\* C7: an upload of exactly 1,073,741,824 bytes to a stored parent succeeds and
\* returns the created artifact; an upload of 1,073,741,825 bytes and one of 0
\* bytes are rejected with DataError, without any object-storage or persistence
\* call.
C7_UploadSizeBoundary ==
    /\ (UploadedWithStorageUp /\ last.size = MAX_FILE_SIZE /\ last.pre # None) =>
           (last.res = "ok" /\ last.ret # None)
    /\ (last.op = "upload" /\ last.size \in {0, MAX_FILE_SIZE + 1}) =>
           (last.res = "DataError" /\ last.mio = <<>> /\ last.es = 0)

\* C8: an upload whose parent_urn names no stored resource fails with
\* NotFoundError, and object storage then holds no object written by that call.
C8_UploadToMissingParent ==
    (/\ last.op = "upload"
     /\ last.size \in 1..MAX_FILE_SIZE
     /\ last.pre = None) =>
        /\ last.res = "NotFoundError"
        /\ \A n \in 1..Len(last.mio) : last.mio[n].call # "put_object"
        /\ \A o \in objects : o.parent # last.ident

\* the last operation was an upload that stored its object and then failed in
\* the creation of the metadata
UploadStoredThenFailed ==
    /\ last.op = "upload"
    /\ MinioCall("put_object", TRUE) \in {last.mio[n] : n \in 1..Len(last.mio)}
    /\ last.inner \notin {"", "ok"}

\* C9: in upload, whenever the object was stored and the following metadata
\* creation fails, removal of that object is attempted before the call returns,
\* and the error delivered is the creation error even when the removal fails.
C9_CleanupThenOriginalError ==
    UploadStoredThenFailed =>
        /\ \E n \in 1..Len(last.mio) :
              /\ last.mio[n].call = "remove_object"
              /\ \E m \in 1..(n - 1) : last.mio[m] = MinioCall("put_object", TRUE)
        /\ last.res = last.inner
        /\ last.res # "ok"

C9_Witness ==
    /\ UploadStoredThenFailed
    /\ last.mio[Len(last.mio)] = MinioCall("remove_object", FALSE)
    /\ last.res = "DataError"
    /\ object_name(last.ident, nextUuid) \in objects

\* C10: in every reachable state, every stored artifact record has a parent_urn
\* that names a resource present in the persistence store.
C10_ArtifactHasLiveParent ==
    \A k \in DOMAIN artifacts : artifacts[k]["parent_urn"] \in DOMAIN guides

\* a state in which an artifact record is stored
C10_SomeArtifactStored == artifacts # Empty

\* ---------------------------------------------------------------- entities/organizations.py
\* The organization schemas: the base-schema shape, title and description
\* standing for the content fields
OrganizationSchemaFields ==
    {"urn", "id", "title", "description", "status", "creator", "created_at", "updated_at"}
OrganizationSchemaRequired == {"urn", "id", "title", "created_at", "updated_at"}
OrganizationUpdateFields == {"title", "description"}

\* OrganizationSchema.model_validate(obj).model_dump(mode="json")
OrganizationSchema_dump(obj) ==
    IF DOMAIN obj \subseteq OrganizationSchemaFields /\ OrganizationSchemaRequired \subseteq DOMAIN obj
    THEN [err |-> "ok",
          ret |-> [k \in OrganizationSchemaFields |->
                      IF k \in DOMAIN obj THEN obj[k] ELSE GuideSchemaDefault(k)]]
    ELSE [err |-> "ValidationError", ret |-> None]

\* OrganizationUpdateSchema.model_validate(spec)
OrganizationUpdate_valid(spec) == DOMAIN spec \subseteq OrganizationUpdateFields

\* org_data.model_dump(mode="json"): every field of the schema, None where unset
OrganizationUpdate_dump(spec) ==
    [k \in OrganizationUpdateFields |-> IF k \in DOMAIN spec THEN spec[k] ELSE NoneV]

\* Organization.get: point lookup, NotFoundError when absent
Organization_get(o, c, urn) ==
    IF urn \notin DOMAIN o THEN [err |-> "NotFoundError", obj |-> None, cache |-> c, es |-> 1]
    ELSE [err |-> "ok", obj |-> es_get_entity(o, urn), cache |-> c, es |-> 1]

\* Entity.get_cached of ORGANIZATION after a cache miss: r is the outcome of
\* self.get(urn); the object is cached, then validated and dumped
org_cache_and_dump(r, urn, rok) ==
    IF r.err # "ok" THEN [err |-> r.err, ret |-> None, cache |-> r.cache, es |-> r.es]
    ELSE [err |-> OrganizationSchema_dump(r.obj).err, ret |-> OrganizationSchema_dump(r.obj).ret,
          cache |-> cache_set(r.cache, urn, r.obj, rok), es |-> r.es]

\* Entity.get_cached of ORGANIZATION
org_get_cached(o, c, urn, rok) ==
    IF cfg.CACHE_ENABLED /\ rok /\ urn \in DOMAIN c
    THEN [err |-> OrganizationSchema_dump(c[urn]).err, ret |-> OrganizationSchema_dump(c[urn]).ret,
          cache |-> c, es |-> 0]
    ELSE org_cache_and_dump(Organization_get(o, c, urn), urn, rok)

\* the document Organization.patch hands to index_entity
organization_patch_dict(urn, spec) ==
    Put(upsert_system_fields("organization", OrganizationUpdate_dump(spec), TRUE,
                             now + 1, now + 1, 0),
        "urn", urn)

\* Organization.patch: validation, validate_existence, then index_entity with
\* the whole dumped body
Organization_patch(o, c, urn, spec, rok) ==
    IF ~OrganizationUpdate_valid(spec) THEN Out("DataError", o, c, 0, now, nextUuid)
    ELSE written(es_index_entity(o, organization_patch_dict(urn, spec)),
                 validate_existence(c, Urn("organization", urn.name), rok).cache, 1,
                 now + 1, nextUuid)

\* Organization.delete(self) declares no urn parameter: the call
\* self.delete(identifier) of delete_entity cannot bind its argument, and the
\* body that raises NotImplementedError is never entered
Organization_delete(o, c, urn) == Out("TypeError", o, c, 0, now, nextUuid)

\* ORGANIZATION.get_entity(identifier)
OrgGetEntity(identifier, rok) ==
    \E i \in {get_identifier("organization", orgs, identifier)} :
    \E r \in {IF i.err # "ok" THEN [err |-> i.err, ret |-> None, cache |-> cache, es |-> i.es]
              ELSE AfterCalls(org_get_cached(orgs, cache, i.urn, rok), i.es)} :
        /\ cache' = r.cache
        /\ last' = Done("get_entity", "organization", identifier, Empty,
                        es_get_entity(orgs, i.urn), r.err, r.ret, r.es)
        /\ UNCHANGED <<extra, poolVars, threads, orgs, cfg, guides, artifacts, objects, now, nextUuid>>

\* ORGANIZATION.patch_entity(identifier, spec), once get_identifier gave the
\* URN: invalidate_cache, patch, then get_entity
OrgPatchResolved(identifier, i, spec, rok) ==
    \E w \in {Organization_patch(orgs, invalidate_cache(cache, i.urn, rok), i.urn, spec, rok)} :
    \E r \in {org_get_cached(w.g, w.c, i.urn, rok)} :
    \E pre \in {es_get_entity(orgs, i.urn)} :
        /\ w.t <= MaxClock
        /\ orgs' = w.g
        /\ now' = w.t
        /\ IF w.err # "ok"
           THEN /\ cache' = w.c
                /\ last' = Done("patch_entity", "organization", identifier, spec, pre,
                                w.err, None, i.es + w.es)
           ELSE /\ cache' = r.cache
                /\ last' = Done("patch_entity", "organization", identifier, spec, pre,
                                r.err, r.ret, i.es + w.es + r.es)
        /\ UNCHANGED <<extra, poolVars, threads, cfg, guides, artifacts, objects, nextUuid>>

\* ORGANIZATION.patch_entity(identifier, spec)
OrgPatchEntity(identifier, spec, rok) ==
    \E i \in {get_identifier("organization", orgs, identifier)} :
        IF i.err # "ok"
        THEN /\ last' = Done("patch_entity", "organization", identifier, spec, None,
                             i.err, None, i.es)
             /\ UNCHANGED <<extra, poolVars, threads, orgs, cfg, guides, artifacts, objects, cache, now, nextUuid>>
        ELSE OrgPatchResolved(identifier, i, spec, rok)

\* ORGANIZATION.delete_entity(identifier): get_identifier, invalidate_cache,
\* then self.delete(identifier)
OrgDeleteEntity(identifier, rok) ==
    \E i \in {get_identifier("organization", orgs, identifier)} :
    \E w \in {IF i.err # "ok" THEN Out(i.err, orgs, cache, 0, now, nextUuid)
              ELSE Organization_delete(orgs, invalidate_cache(cache, i.urn, rok), i.urn)} :
        /\ orgs' = w.g
        /\ cache' = w.c
        /\ last' = Done("delete_entity", "organization", identifier, Empty,
                        IF i.err = "ok" THEN es_get_entity(orgs, i.urn) ELSE None,
                        w.err, None, i.es + w.es)
        /\ UNCHANGED <<extra, poolVars, threads, cfg, guides, artifacts, objects, now, nextUuid>>

\* organization update bodies
OrgPatchSpecs ==
    {Empty, [title |-> "v1"], [title |-> "v2", description |-> "d"], [bogus |-> "x"]}

OrgIdentifiers(S) == {Urn("organization", s) : s \in S} \cup {Raw(s) : s \in S} \cup Uuids

\* the organization operations on the slugs S
OrgNext(S) ==
    \/ \E i \in OrgIdentifiers(S), rok \in RedisOutcomes : OrgGetEntity(i, rok)
    \/ \E i \in OrgIdentifiers(S), spec \in OrgPatchSpecs, rok \in RedisOutcomes :
          OrgPatchEntity(i, spec, rok)
    \/ \E i \in OrgIdentifiers(S), rok \in RedisOutcomes : OrgDeleteEntity(i, rok)

NextOrg == OrgNext({"a"})

SpecOrg == Init /\ [][NextOrg]_vars

\* ---------------------------------------------------------------- C11
\* C11: delete_entity on an organization fails with a not-implemented or
\* not-allowed error for every identifier (URN, bare slug, UUID), stored or
\* not, and leaves the stored organizations as they were.
C11_OrgDeleteNotImplemented ==
    [][(last'.op = "delete_entity" /\ last'.cls = "organization") =>
           (/\ last'.res \in {"NotImplementedError", "NotAllowedError"}
            /\ orgs' = orgs)]_vars

\* the frame half of C11 on its own: no delete_entity changes a stored organization
C11_OrgDeleteKeepsStore ==
    [][(last'.op = "delete_entity" /\ last'.cls = "organization") => orgs' = orgs]_vars

C11_DeletedStoredOrg ==
    /\ last.op = "delete_entity" /\ last.cls = "organization"
    /\ last.pre # None

\* ---------------------------------------------------------------- routers/generic.py
\* What a call gives back: a returned value, or a raised exception.  status is
\* the status_code of a domain error (0 for any other exception), level the
\* level of the error log record written for it (0 when none was written).
Returned(v) == [kind |-> "return", value |-> v, exc |-> "", status |-> 0, level |-> 0]
Raised(exc, status, level) ==
    [kind |-> "raise", value |-> None, exc |-> exc, status |-> status, level |-> level]

\* exceptions.py: the domain errors (subclasses of APIException) and their status
APIExceptionStatus ==
    [DataError |-> 400, NotAllowedError |-> 403, NotFoundError |-> 404,
     ConflictError |-> 409, InternalError |-> 500]
IsAPIException(exc) == exc \in DOMAIN APIExceptionStatus

\* APIException.from_unexpected(exc): the generic 500-level domain error
from_unexpected(exc) == Raised("UnexpectedError", 500, 40)

\* a starlette Response, as a handler builds it
Response == [response |-> TRUE, status_code |-> 200]

\* _ok(result, request): APIEnvelope(help=str(request.url), result=result)
RequestUrl == "http://catalog/api/v1"
ok_envelope(result) == [help |-> RequestUrl, success |-> TRUE, result |-> result]

\* map_result: absent, a transformer, or a transformer that raises
Mappers == {"none", "wrap", "raises"}
map_result(mapper, v) == IF mapper = "wrap" THEN [mapped |-> v] ELSE v

\* except Exception: logger.exception(...), then
\* raise APIException.from_unexpected(exc); the log call is not guarded
except_Exception(exc, logErr) ==
    IF logErr THEN from_unexpected(exc) ELSE Raised("LoggingError", 0, 0)

\* except APIException: logger.log(level, ...) at WARNING below 500 and ERROR
\* from 500 on, then a bare raise; the log call is not guarded
except_APIException(exc, logErr) ==
    IF logErr
    THEN Raised(exc, APIExceptionStatus[exc], IF APIExceptionStatus[exc] < 500 THEN 30 ELSE 40)
    ELSE Raised("LoggingError", 0, 0)

\* the two except clauses of async_wrapper, for an exception raised in its try block
wrapper_except(exc, logErr) ==
    IF IsAPIException(exc) THEN except_APIException(exc, logErr)
    ELSE except_Exception(exc, logErr)

\* the try block of async_wrapper once the handler returned v: a Response is
\* logged and passed through; any other value is mapped, enveloped, logged
wrapper_returned(v, mapper, logEnd, logErr) ==
    IF v = Response
    THEN IF logEnd THEN Returned(v) ELSE wrapper_except("LoggingError", logErr)
    ELSE IF mapper = "raises" THEN wrapper_except("MapperError", logErr)
    ELSE IF ~logEnd THEN wrapper_except("LoggingError", logErr)
    ELSE Returned(ok_envelope(map_result(mapper, v)))

\* render(...)(func) called with the handler outcome h: hasReq tells whether a
\* Request is among the arguments; logStart, logEnd and logErr tell whether
\* the api.start, api.end and api.error log calls return (TRUE) or raise
async_wrapper(hasReq, h, mapper, logStart, logEnd, logErr) ==
    IF ~hasReq THEN Raised("RuntimeError", 0, 0)
    ELSE IF h.kind = "raise" THEN wrapper_except(h.exc, logErr)
    ELSE wrapper_returned(h.value, mapper, logEnd, logErr)

\* ---------------------------------------------------------------- unsupported operations
\* routers/artifacts.py: api_patch_artifact and api_delete_artifact are bare returns
api_patch_artifact == Returned(None)
api_delete_artifact == Returned(None)

\* entity.py Artifact.list, Artifact.search, Artifact.patch, Artifact.delete
Artifact_list == Raised("NotImplementedError", 0, 0)
Artifact_search == Raised("NotAllowedError", APIExceptionStatus["NotAllowedError"], 0)
Artifact_patch == Raised("NotImplementedError", 0, 0)
Artifact_delete == Raised("NotImplementedError", 0, 0)

\* entities/articles.py Article.get, create, patch, delete: the body is pass
Article_get == Returned(None)
Article_create == Returned(None)
Article_patch == Returned(None)
Article_delete == Returned(None)

\* the handlers behind the two declared-only artifact endpoints
UnsupportedEndpoints ==
    [api_patch_artifact |-> api_patch_artifact, api_delete_artifact |-> api_delete_artifact]

\* the methods of the operations the entity layer does not support
UnsupportedMethods ==
    [Artifact_list |-> Artifact_list, Artifact_search |-> Artifact_search,
     Artifact_patch |-> Artifact_patch, Artifact_delete |-> Artifact_delete,
     Article_get |-> Article_get, Article_create |-> Article_create,
     Article_patch |-> Article_patch, Article_delete |-> Article_delete]

\* the outcome r of a call, as the last operation
Rendered(op, name, inputs, h, r) ==
    Done(op, name, None, inputs, h, IF r.kind = "return" THEN "ok" ELSE r.exc, r, 0)

\* a request to an endpoint wrapped by render(): the handler gives h
RenderCall(name, hasReq, h, mapper, logStart, logEnd, logErr) ==
    /\ last' = Rendered("render", name,
                        [hasReq |-> hasReq, mapper |-> mapper, logStart |-> logStart,
                         logEnd |-> logEnd, logErr |-> logErr], h,
                        async_wrapper(hasReq, h, mapper, logStart, logEnd, logErr))
    /\ UNCHANGED <<aux, cfg, guides, artifacts, objects, cache, now, nextUuid>>

\* a direct call of a method of an unsupported operation
MethodCall(name) ==
    /\ last' = Rendered("call", name, Empty, None, UnsupportedMethods[name])
    /\ UNCHANGED <<aux, cfg, guides, artifacts, objects, cache, now, nextUuid>>

\* what a handler can give: None, a document, a Response, a domain error, or
\* any other exception
HandlerOutcomes ==
    {Returned(None), Returned([urn |-> "a"]), Returned(Response)}
        \cup {Raised(e, APIExceptionStatus[e], 0) : e \in DOMAIN APIExceptionStatus}
        \cup {Raised(e, 0, 0) : e \in {"TypeError", "NotImplementedError"}}

NextRender ==
    \/ \E h \in HandlerOutcomes, hasReq \in BOOLEAN, mapper \in Mappers,
          logStart \in BOOLEAN, logEnd \in BOOLEAN, logErr \in BOOLEAN :
          RenderCall("handler", hasReq, h, mapper, logStart, logEnd, logErr)
    \/ \E name \in DOMAIN UnsupportedEndpoints, logStart \in BOOLEAN, logEnd \in BOOLEAN,
          logErr \in BOOLEAN :
          RenderCall(name, TRUE, UnsupportedEndpoints[name], "none", logStart, logEnd, logErr)
    \/ \E name \in DOMAIN UnsupportedMethods : MethodCall(name)

SpecRender == Init /\ [][NextRender]_vars

\* ---------------------------------------------------------------- C12
\* C12: every request for an unsupported operation (the artifact PATCH and
\* DELETE endpoints, artifact list and search, article get, create, patch and
\* delete) ends in NotAllowedError or a not-implemented failure; none
\* completes with success.
C12_UnsupportedFails ==
    (last.cls \in DOMAIN UnsupportedEndpoints \cup DOMAIN UnsupportedMethods) =>
        last.res \in {"NotAllowedError", "NotImplementedError"}

\* ---------------------------------------------------------------- C18
\* a request whose handler was invoked, whose result transform (if any) returns
RenderInvoked == last.op = "render" /\ last.spec.hasReq /\ last.spec.mapper # "raises"

\* the contract of the wrapper for the handler outcome h and the wrapper outcome r
RenderContract(h, r, mapper) ==
    /\ h.kind = "return" =>
           (r.kind = "return" /\ r.value = ok_envelope(map_result(mapper, h.value)))
    /\ (h.kind = "raise" /\ IsAPIException(h.exc)) =>
           (r.kind = "raise" /\ r.exc = h.exc /\ r.status = h.status)
    /\ (h.kind = "raise" /\ ~IsAPIException(h.exc)) =>
           (r.kind = "raise" /\ r.exc = "UnexpectedError" /\ r.status >= 500)
    /\ r.kind = "raise" => (IsAPIException(r.exc) \/ r.exc = "UnexpectedError")

\* C18: for any handler invoked through the render wrapper, a returned value
\* yields the envelope {help, success: true, result}, a raised domain error
\* propagates as the same error, any other exception is replaced by a
\* 500-level domain error, and no non-domain exception leaves the wrapper.
C18_RenderContract ==
    RenderInvoked => RenderContract(last.pre, last.ret, last.spec.mapper)

\* the same contract where every log call returns and the handler gives no Response
C18_ContractWhenLogsReturn ==
    (/\ RenderInvoked
     /\ last.spec.logEnd /\ last.spec.logErr
     /\ last.pre.value # Response) =>
        RenderContract(last.pre, last.ret, last.spec.mapper)

\* a domain error raised by the handler, and an exception of the error log
\* call leaving the wrapper in its place
C18_DomainErrorLost ==
    /\ RenderInvoked
    /\ last.pre.kind = "raise" /\ IsAPIException(last.pre.exc)
    /\ last.ret.exc = "LoggingError"

\* ---------------------------------------------------------------- search
\* schemas.py SearchSchema: seven fields, limit in 1..SearchLimitMax, offset
\* from 0 on; the class sets no model_config, so keys it does not declare are
\* ignored
SearchLimitMax == 100
SearchSchemaFields == {"q", "limit", "offset", "fl", "fq", "sort", "fields"}
SearchSchemaDefault(k) ==
    CASE k = "limit" -> 10
      [] k = "offset" -> 0
      [] OTHER -> NoneV

\* SearchSchema.model_validate(query)
SearchSchema_valid(query) ==
    /\ "limit" \in DOMAIN query => query["limit"] \in 1..SearchLimitMax
    /\ "offset" \in DOMAIN query => query["offset"] >= 0

\* SearchSchema.model_validate(query).model_dump(mode="json")
SearchSchema_dump(query) ==
    [k \in SearchSchemaFields |-> IF k \in DOMAIN query THEN query[k] ELSE SearchSchemaDefault(k)]

\* ElasticsearchClientSingleton.search_entities(index, qspec): client.search
\* with qspec as the body; the store answers with hits (sok) or the call raises
es_search_entities(index, qspec, sok) ==
    IF sok THEN [err |-> "ok", hits |-> {index[k] : k \in DOMAIN index}]
    ELSE [err |-> "StoreError", hits |-> {}]

\* Guide.search and Organization.search, once the store call gave r
search_result(r) ==
    [err |-> r.err, ret |-> IF r.err = "ok" THEN [hits |-> r.hits] ELSE None, es |-> 1]

\* Guide.search / Organization.search: the query is validated, then handed to
\* search_entities
Entity_search(index, query, sok) ==
    IF ~SearchSchema_valid(query) THEN [err |-> "DataError", ret |-> None, es |-> 0]
    ELSE search_result(es_search_entities(index, SearchSchema_dump(query), sok))

\* GUIDE.search_entities(query) / ORGANIZATION.search_entities(query)
SearchEntities(name, query, sok) ==
    \E r \in {Entity_search(IF name = "guide" THEN guides ELSE orgs, query, sok)} :
        /\ last' = Done("search_entities", name, None, query, None, r.err, r.ret, r.es)
        /\ UNCHANGED <<aux, cfg, guides, artifacts, objects, cache, now, nextUuid>>

\* search queries: each of q, limit and offset absent or set, with or
\* without a key the schema does not declare
SearchQueries ==
    {Merge(Merge(Merge(qq, ql), qo), qx) :
        qq \in {Empty, [q |-> "x"]},
        ql \in {Empty} \cup {[limit |-> n] : n \in {0, 1, SearchLimitMax, SearchLimitMax + 1}},
        qo \in {Empty} \cup {[offset |-> n] : n \in {-1, 0}},
        qx \in {Empty, [bogus |-> "x"]}}

NextSearch ==
    \E name \in {"guide", "organization"}, query \in SearchQueries, sok \in BOOLEAN :
        SearchEntities(name, query, sok)

SpecSearch == Init /\ [][NextSearch]_vars

\* ---------------------------------------------------------------- C13
\* C13: a guide or organization search query with any field outside q, limit,
\* offset, fl, fq, sort, fields is rejected with a validation error, and the
\* persistence client is not called.
C13_UnknownFieldRejected ==
    (/\ last.op = "search_entities"
     /\ ~(DOMAIN last.spec \subseteq SearchSchemaFields)) =>
        (last.res = "DataError" /\ last.es = 0)

\* ---------------------------------------------------------------- C14
\* a guide operation on a URN or UUID that resolves to no stored document (a
\* patch with a body that passes validation)
OnMissingGuide ==
    /\ last.op \in {"get_entity", "patch_entity", "delete_entity"}
    /\ last.cls \in GuideClasses
    /\ last.ident.kind \in {"urn", "uuid"}
    /\ last.pre = None
    /\ last.op = "patch_entity" => GuideUpdate_valid(last.spec)

\* C14: get_entity, patch_entity and delete_entity on a guide identifier (URN
\* or UUID) that resolves to no stored document each fail with NotFoundError.
C14_MissingIsNotFound == OnMissingGuide => last.res = "NotFoundError"

\* get_entity alone does, with caching off: a missing guide is reported as
\* NotFoundError
C14_GetMissingIsNotFound ==
    (OnMissingGuide /\ last.op = "get_entity" /\ ~cfg.CACHE_ENABLED) =>
        last.res = "NotFoundError"

C14_DeletedMissing == OnMissingGuide /\ last.op = "delete_entity" /\ last.ident.kind = "urn"

\* ---------------------------------------------------------------- store failures
\* What the entity layer sees of an index when its read calls fail:
\* ElasticsearchClientSingleton.get_entity swallows the exception and returns
\* None, and resolve_urn answers a raising search with NotFoundError, which is
\* what both give on an index that holds nothing.
read_view(index, up) == IF up THEN index ELSE Empty

\* a write call (index, update, delete) with outcome w when the store answers;
\* the client raises when it does not
write_call(w, index, up) == IF up THEN w ELSE [err |-> "StoreError", index |-> index]

\* entity.py Guide.create once get_entity(spec["urn"]) gave existing
create_unless_found_faulty(existing, g, spec, creator, d, wr) ==
    IF existing.err = "ok"
    THEN Out("ConflictError", g, existing.cache, existing.es, now, nextUuid)
    ELSE IF existing.err # "NotFoundError"
    THEN Out(existing.err, g, existing.cache, existing.es, now, nextUuid)
    ELSE written(write_call(es_index_entity(g, guide_dict(spec, creator, d)), g, wr),
                 existing.cache, existing.es + 1, now + 2, nextUuid + 1)

\* Guide.create (both classes); rd and wr tell whether the read and the write
\* calls of the operation reach the store
Guide_create_faulty(cls, g, a, c, spec, creator, d, rok, rd, wr) ==
    IF cls = "entities" THEN EntitiesGuide_create(g, a, c, spec, creator, d, rok)
    ELSE IF ~GuideCreation_valid(spec) THEN Out("DataError", g, c, 0, now, nextUuid)
    ELSE create_unless_found_faulty(
             get_entity("entity", read_view(g, rd), read_view(a, rd), c, Raw(spec["urn"]), rok),
             g, spec, creator, d, wr)

\* Guide.patch, once the existence check gave v after es store calls
update_if_exists_faulty(v, es, g, urn, dumped, wr) ==
    IF v.err # "ok" THEN Out(v.err, g, v.cache, es, now, nextUuid)
    ELSE written(write_call(es_update_entity(g, guide_patch_dict(urn, dumped)), g, wr),
                 v.cache, es + 1, now + 1, nextUuid)

\* Guide.patch (both classes)
Guide_patch_faulty(cls, g, a, c, urn, spec, rok, rd, wr) ==
    IF ~GuideUpdate_valid(spec) THEN Out("DataError", g, c, 0, now, nextUuid)
    ELSE IF cls = "entities"
    THEN update_if_exists_faulty(validate_existence(c, urn, rok), 0, g, urn,
                                 GuideUpdate_dump_exclude_none(spec), wr)
    ELSE IF urn \notin DOMAIN read_view(g, rd) THEN Out("NotFoundError", g, c, 1, now, nextUuid)
    ELSE update_if_exists_faulty(
             existing_guide(Guide_get("entity", read_view(g, rd), read_view(a, rd), c, urn, rok)),
             2, g, urn, spec, wr)

\* Guide.delete (both classes)
Guide_delete_faulty(g, c, urn, wr) ==
    written(write_call(es_delete_entity(g, urn), g, wr), c, 1, now, nextUuid)

\* the last operation, marked when one of its store calls failed
DoneFaulty(d, failed) == [d EXCEPT !.inner = IF failed THEN "store call failed" ELSE ""]

\* GUIDE.get_entity(identifier)
FaultyGetEntity(cls, identifier, rok, rd) ==
    \E r \in {get_entity(cls, read_view(guides, rd), read_view(artifacts, rd), cache,
                         identifier, rok)} :
        /\ cache' = r.cache
        /\ last' = DoneFaulty(Done("get_entity", cls, identifier, Empty, None, r.err, r.ret, r.es),
                              ~rd /\ r.es > 0)
        /\ UNCHANGED <<aux, cfg, guides, artifacts, objects, now, nextUuid>>

\* GUIDE.create_entity(spec, creator)
FaultyCreateEntity(cls, spec, creator, d, rok, rd, wr) ==
    \E w \in {Guide_create_faulty(cls, guides, artifacts, cache, spec, creator, d, rok, rd, wr)} :
    \E r \in {get_entity(cls, read_view(w.g, rd), read_view(artifacts, rd), w.c,
                         Raw(spec["urn"]), rok)} :
    \E pre \in {es_get_entity(guides, Urn("guide", spec["urn"]))} :
        /\ w.t <= MaxClock
        /\ w.u <= MaxUuid
        /\ guides' = w.g
        /\ now' = w.t
        /\ nextUuid' = w.u
        /\ IF w.err # "ok"
           THEN /\ cache' = w.c
                /\ last' = DoneFaulty(Done("create_entity", cls, Raw(spec["urn"]), spec, pre,
                                           w.err, None, w.es),
                                      (~rd /\ w.es > 0) \/ (~wr /\ w.err = "InternalError"))
           ELSE /\ cache' = r.cache
                /\ last' = DoneFaulty(Done("create_entity", cls, Raw(spec["urn"]), spec, pre,
                                           r.err, r.ret, w.es + r.es),
                                      ~rd /\ w.es + r.es > 1)
        /\ UNCHANGED <<aux, cfg, artifacts, objects>>

\* GUIDE.patch_entity(identifier, spec), once get_identifier gave the URN
FaultyPatchResolved(cls, identifier, i, spec, rok, rd, wr) ==
    \E w \in {Guide_patch_faulty(cls, guides, artifacts, invalidate_cache(cache, i.urn, rok),
                                 i.urn, spec, rok, rd, wr)} :
    \E r \in {get_entity(cls, read_view(w.g, rd), read_view(artifacts, rd), w.c, i.urn, rok)} :
    \E pre \in {es_get_entity(guides, i.urn)} :
        /\ w.t <= MaxClock
        /\ guides' = w.g
        /\ now' = w.t
        /\ IF w.err # "ok"
           THEN /\ cache' = w.c
                /\ last' = DoneFaulty(Done("patch_entity", cls, identifier, spec, pre, w.err,
                                           None, i.es + w.es),
                                      \/ ~rd /\ cls = "entity" /\ w.es > 0
                                      \/ ~wr /\ w.err = "InternalError")
           ELSE /\ cache' = r.cache
                /\ last' = DoneFaulty(Done("patch_entity", cls, identifier, spec, pre, r.err,
                                           r.ret, i.es + w.es + r.es),
                                      ~rd /\ r.es > 0)
        /\ UNCHANGED <<aux, cfg, artifacts, objects, nextUuid>>

\* GUIDE.patch_entity(identifier, spec)
FaultyPatchEntity(cls, identifier, spec, rok, rd, wr) ==
    \E i \in {get_identifier("guide", read_view(guides, rd), identifier)} :
        IF i.err # "ok"
        THEN /\ last' = DoneFaulty(Done("patch_entity", cls, identifier, spec, None, i.err,
                                        None, i.es),
                                   ~rd /\ i.es > 0)
             /\ UNCHANGED <<aux, cfg, guides, artifacts, objects, cache, now, nextUuid>>
        ELSE FaultyPatchResolved(cls, identifier, i, spec, rok, rd, wr)

\* GUIDE.delete_entity(identifier)
FaultyDeleteEntity(cls, identifier, rok, rd, wr) ==
    \E i \in {get_identifier("guide", read_view(guides, rd), identifier)} :
    \E w \in {IF i.err # "ok" THEN Out(i.err, guides, cache, 0, now, nextUuid)
              ELSE Guide_delete_faulty(guides, invalidate_cache(cache, i.urn, rok), i.urn, wr)} :
        /\ guides' = w.g
        /\ cache' = w.c
        /\ last' = DoneFaulty(Done("delete_entity", cls, identifier, Empty, None, w.err,
                                   IF w.err = "ok" THEN [deleted |-> i.urn] ELSE None,
                                   i.es + w.es),
                              (~rd /\ i.es > 0) \/ (~wr /\ i.err = "ok"))
        /\ UNCHANGED <<aux, cfg, artifacts, objects, now, nextUuid>>

\* the guide operations on the slugs S, each with its store calls answered or failing
FaultyNext(S) ==
    \/ \E cls \in GuideClasses, i \in UrnsOf(S) \cup Uuids, rd \in BOOLEAN :
          FaultyGetEntity(cls, i, TRUE, rd)
    \/ \E cls \in GuideClasses, spec \in CreateSpecs(S), creator \in Creators,
          rd \in BOOLEAN, wr \in BOOLEAN :
          FaultyCreateEntity(cls, spec, creator, 0, TRUE, rd, wr)
    \/ \E cls \in GuideClasses, i \in UrnsOf(S) \cup Uuids,
          spec \in {Empty, [title |-> "v2"]}, rd \in BOOLEAN, wr \in BOOLEAN :
          FaultyPatchEntity(cls, i, spec, TRUE, rd, wr)
    \/ \E cls \in GuideClasses, i \in UrnsOf(S) \cup Uuids,
          rd \in BOOLEAN, wr \in BOOLEAN :
          FaultyDeleteEntity(cls, i, TRUE, rd, wr)

NextFault == FaultyNext({"a"})

SpecFault == Init /\ [][NextFault]_vars

\* ---------------------------------------------------------------- C15
\* C15: whenever a store call fails during an entity operation (get, the
\* existence check of create, patch, delete, UUID resolution), the operation
\* surfaces InternalError, never NotFoundError, and never goes on as if the
\* document were absent.
C15_StoreFailureIsInternalError ==
    last.inner = "store call failed" => last.res = "InternalError"

\* delete_entity by URN makes one store call, the delete: its failure
\* surfaces InternalError
C15_DeleteFailureIsInternalError ==
    (/\ last.inner = "store call failed"
     /\ last.op = "delete_entity"
     /\ last.ident.kind = "urn") =>
        last.res = "InternalError"

\* a creation that went on after its existence check failed, and replaced the
\* stored guide
C15_OverwrittenAfterFailedCheck ==
    /\ last.op = "create_entity" /\ last.inner = "store call failed"
    /\ last.pre # None
    /\ guides[Urn("guide", last.spec["urn"])] # last.pre

\* ---------------------------------------------------------------- cache calls one by one
\* The outcomes of the cache calls of one operation: inv for REDIS.delete
\* (invalidate_cache), get for REDIS.get, set for REDIS.set; TRUE when the call
\* returns, FALSE when it raises BadGatewayError (which the entity logs).
CacheOutcomes == [inv : BOOLEAN, get : BOOLEAN, set : BOOLEAN]
AllFail == [inv |-> FALSE, get |-> FALSE, set |-> FALSE]

\* Entity.get_cached, with the outcome of each cache call
get_cached_calls(cls, g, a, c, urn, rk) ==
    IF cfg.CACHE_ENABLED /\ rk.get /\ urn \in DOMAIN c
    THEN [err |-> GuideSchema_dump(c[urn]).err, ret |-> GuideSchema_dump(c[urn]).ret,
          cache |-> c, es |-> 0]
    ELSE cache_and_dump(Guide_get(cls, g, a, c, urn, rk.inv), urn, rk.set)

\* Entity.patch_entity on a URN: invalidate_cache, patch, get_entity
patch_entity_calls(cls, g, a, c, urn, spec, rk, w) ==
    IF w.err # "ok" THEN [err |-> w.err, ret |-> None, cache |-> w.c, g |-> w.g, t |-> w.t]
    ELSE [err |-> get_cached_calls(cls, w.g, a, w.c, urn, rk).err,
          ret |-> get_cached_calls(cls, w.g, a, w.c, urn, rk).ret,
          cache |-> get_cached_calls(cls, w.g, a, w.c, urn, rk).cache,
          g |-> w.g, t |-> w.t]

\* the outcome an operation has with caching disabled, next to its own
Compared(d, ref, failed) ==
    [d EXCEPT !.pre = [res |-> ref.err, ret |-> ref.ret],
              !.inner = IF failed THEN "cache call failed" ELSE ""]

\* GUIDE.get_entity(urn)
CacheGetEntity(cls, urn, rk) ==
    \E r \in {get_cached_calls(cls, guides, artifacts, cache, urn, rk)} :
    \E ref \in {get_cached_calls(cls, guides, artifacts, cache, urn, AllFail)} :
        /\ cache' = r.cache
        /\ last' = Compared(Done("get_entity", cls, urn, Empty, None, r.err, r.ret, r.es), ref,
                            cfg.CACHE_ENABLED /\ ~rk.get)
        /\ UNCHANGED <<aux, cfg, guides, artifacts, objects, now, nextUuid>>

\* GUIDE.patch_entity(urn, spec)
CachePatchEntity(cls, urn, spec, rk) ==
    \E w \in {Guide_patch(cls, guides, artifacts, invalidate_cache(cache, urn, rk.inv), urn,
                          spec, rk.inv)} :
    \E r \in {patch_entity_calls(cls, guides, artifacts, cache, urn, spec, rk, w)} :
    \E ref \in {patch_entity_calls(cls, guides, artifacts, cache, urn, spec, AllFail,
                                   Guide_patch(cls, guides, artifacts, cache, urn, spec, FALSE))} :
        /\ r.t <= MaxClock
        /\ guides' = r.g
        /\ now' = r.t
        /\ cache' = r.cache
        /\ last' = Compared(Done("patch_entity", cls, urn, spec, None, r.err, r.ret, 0), ref,
                            cfg.CACHE_ENABLED /\ ~rk.inv)
        /\ UNCHANGED <<aux, cfg, artifacts, objects, nextUuid>>

\* GUIDE.delete_entity(urn)
CacheDeleteEntity(cls, urn, rk) ==
    \E w \in {Guide_delete(guides, invalidate_cache(cache, urn, rk.inv), urn)} :
    \E ref \in {Guide_delete(guides, cache, urn)} :
        /\ guides' = w.g
        /\ cache' = w.c
        /\ last' = Compared(Done("delete_entity", cls, urn, Empty, None, w.err,
                                 IF w.err = "ok" THEN [deleted |-> urn] ELSE None, w.es),
                            [err |-> ref.err,
                             ret |-> IF ref.err = "ok" THEN [deleted |-> urn] ELSE None],
                            cfg.CACHE_ENABLED /\ ~rk.inv)
        /\ UNCHANGED <<aux, cfg, artifacts, objects, now, nextUuid>>

\* the guide operations on the slugs S, with each cache call returning or raising
CacheNext(S) ==
    \/ \E cls \in GuideClasses, i \in UrnsOf(S), rk \in CacheOutcomes :
          CacheGetEntity(cls, i, rk)
    \/ \E cls \in GuideClasses, spec \in CreateSpecs(S), creator \in Creators :
          CreateEntity(cls, spec, creator, 0, TRUE)
    \/ \E cls \in GuideClasses, i \in UrnsOf(S), spec \in {Empty, [title |-> "v2"]},
          rk \in CacheOutcomes :
          CachePatchEntity(cls, i, spec, rk)
    \/ \E cls \in GuideClasses, i \in UrnsOf(S), rk \in CacheOutcomes :
          CacheDeleteEntity(cls, i, rk)

NextCache == CacheNext({"a"})

SpecCache == Init /\ [][NextCache]_vars

C17_GetFallsBackToStore ==
    /\ last.res # "BadGatewayError"
    /\ (last.inner = "cache call failed" /\ last.op = "get_entity") =>
           (last.res = last.pre.res /\ last.ret = last.pre.ret)
    /\ ~cfg.CACHE_ENABLED => cache = Empty

\* a patch_entity whose invalidation failed, returning the cached pre-patch guide
C17_StaleAfterFailedInvalidate ==
    /\ last.inner = "cache call failed" /\ last.op = "patch_entity"
    /\ last.res = "ok" /\ last.pre.res = "ok"
    /\ last.ret # last.pre.ret

\* ---------------------------------------------------------------- requests step by step
\* get_entity, patch_entity and delete_entity of GUIDE (entities/guides.py) on
\* one URN, one client call per step, so that requests interleave.  Every
\* cache call returns.
RaceUrn == Urn("guide", "a")

At(t, pc) == threads[t].pc = pc
Goto(t, pc) == threads' = [threads EXCEPT ![t].pc = pc]
Finish(t, res, ret) ==
    threads' = [threads EXCEPT ![t].pc = "done", ![t].res = res, ![t].ret = ret]

\* a request enters its bundler method; L enters once W has returned
StartGet(t) ==
    /\ t \in {"G", "L"}
    /\ At(t, "idle")
    /\ t = "G" => RaceUrn \in DOMAIN guides
    /\ t = "L" => At("W", "done")
    /\ threads' = [threads EXCEPT ![t].pc = "redis_get", ![t].op = "get_entity"]
    /\ UNCHANGED <<extra, poolVars, orgs, cfg, guides, artifacts, objects, cache, now, nextUuid, last>>

StartWrite(op, spec) ==
    /\ At("W", "idle")
    /\ RaceUrn \in DOMAIN guides
    /\ threads' = [threads EXCEPT !["W"].pc = "invalidate", !["W"].op = op, !["W"].spec = spec]
    /\ UNCHANGED <<extra, poolVars, orgs, cfg, guides, artifacts, objects, cache, now, nextUuid, last>>

\* Entity.get_cached: obj = REDIS.get(urn); a hit is validated, dumped and returned
RedisGet(t) ==
    /\ At(t, "redis_get")
    /\ IF cfg.CACHE_ENABLED /\ RaceUrn \in DOMAIN cache
       THEN Finish(t, GuideSchema_dump(cache[RaceUrn]).err, GuideSchema_dump(cache[RaceUrn]).ret)
       ELSE Goto(t, "es_get")
    /\ UNCHANGED <<extra, poolVars, orgs, cfg, guides, artifacts, objects, cache, now, nextUuid, last>>

\* Guide.get: ELASTIC_CLIENT.get_entity; None is NotFoundError
EsGet(t) ==
    /\ At(t, "es_get")
    /\ IF RaceUrn \in DOMAIN guides
       THEN threads' = [threads EXCEPT ![t].pc = "fetch", ![t].obj = es_get_entity(guides, RaceUrn)]
       ELSE Finish(t, "NotFoundError", None)
    /\ UNCHANGED <<extra, poolVars, orgs, cfg, guides, artifacts, objects, cache, now, nextUuid, last>>

\* Guide.get: ARTIFACT.fetch(urn), which invalidates the guide's cache entry
\* (validate_existence) and searches its artifacts
FetchArtifacts(t) ==
    /\ At(t, "fetch")
    /\ \E f \in {EntitiesArtifact_fetch(artifacts, cache, RaceUrn, TRUE)} :
          /\ cache' = f.cache
          /\ threads' = [threads EXCEPT ![t].pc = "redis_set",
                                        ![t].obj = Put(@, "artifacts", f.results)]
    /\ UNCHANGED <<extra, poolVars, orgs, cfg, guides, artifacts, objects, now, nextUuid, last>>

\* Entity.get_cached: self.cache(urn, obj), then the object is validated,
\* dumped and returned
RedisSet(t) ==
    /\ At(t, "redis_set")
    /\ cache' = cache_set(cache, RaceUrn, threads[t].obj, TRUE)
    /\ Finish(t, GuideSchema_dump(threads[t].obj).err, GuideSchema_dump(threads[t].obj).ret)
    /\ UNCHANGED <<extra, poolVars, orgs, cfg, guides, artifacts, objects, now, nextUuid, last>>

\* Entity.patch_entity / Entity.delete_entity: self.invalidate_cache(identifier)
Invalidate ==
    /\ At("W", "invalidate")
    /\ cache' = invalidate_cache(cache, RaceUrn, TRUE)
    /\ Goto("W", IF threads["W"].op = "patch_entity" THEN "validate" ELSE "es_delete")
    /\ UNCHANGED <<extra, poolVars, orgs, cfg, guides, artifacts, objects, now, nextUuid, last>>

\* Guide.patch: the body is validated, then validate_existence(urn) invalidates again
PatchValidate ==
    /\ At("W", "validate")
    /\ IF GuideUpdate_valid(threads["W"].spec)
       THEN /\ cache' = validate_existence(cache, RaceUrn, TRUE).cache
            /\ Goto("W", "es_update")
       ELSE /\ cache' = cache
            /\ Finish("W", "DataError", None)
    /\ UNCHANGED <<extra, poolVars, orgs, cfg, guides, artifacts, objects, now, nextUuid, last>>

\* Guide.patch: ELASTIC_CLIENT.update_entity; then patch_entity goes on to get_entity
EsUpdate ==
    /\ At("W", "es_update")
    /\ now + 1 <= MaxClock
    /\ \E w \in {es_update_entity(guides,
                     guide_patch_dict(RaceUrn, GuideUpdate_dump_exclude_none(threads["W"].spec)))} :
          /\ guides' = w.index
          /\ IF w.err = "ok" THEN Goto("W", "redis_get") ELSE Finish("W", "InternalError", None)
    /\ now' = now + 1
    /\ UNCHANGED <<extra, poolVars, orgs, cfg, artifacts, objects, cache, nextUuid, last>>

\* Guide.delete: ELASTIC_CLIENT.delete_entity
EsDelete ==
    /\ At("W", "es_delete")
    /\ \E w \in {es_delete_entity(guides, RaceUrn)} :
          /\ guides' = w.index
          /\ IF w.err = "ok" THEN Finish("W", "ok", [deleted |-> RaceUrn])
             ELSE Finish("W", "InternalError", None)
    /\ UNCHANGED <<extra, poolVars, orgs, cfg, artifacts, objects, cache, now, nextUuid, last>>

\* the guide is created before any request is in flight
RaceSetup ==
    /\ \A t \in Threads : At(t, "idle")
    /\ RaceUrn \notin DOMAIN guides
    /\ \E spec \in CreateSpecs({"a"}), creator \in Creators :
          CreateEntity("entity", spec, creator, 0, TRUE)

NextRace ==
    \/ RaceSetup
    \/ \E t \in {"G", "L"} : StartGet(t)
    \/ \E spec \in {[title |-> "v2"], [status |-> "deleted"], Empty} :
          StartWrite("patch_entity", spec)
    \/ StartWrite("delete_entity", Empty)
    \/ \E t \in Threads : RedisGet(t)
    \/ \E t \in Threads : EsGet(t)
    \/ \E t \in Threads : FetchArtifacts(t)
    \/ \E t \in Threads : RedisSet(t)
    \/ Invalidate
    \/ PatchValidate
    \/ EsUpdate
    \/ EsDelete

SpecRace == Init /\ [][NextRace]_vars

\* ---------------------------------------------------------------- C16
\* what a get_entity returns when it observes the store as it is
ObservesStore(t) ==
    IF RaceUrn \in DOMAIN guides
    THEN /\ threads[t].res = "ok"
         /\ threads[t].ret =
                GuideSchema_dump(Put(guides[RaceUrn], "artifacts",
                                     EntitiesArtifact_fetch(artifacts, cache, RaceUrn, TRUE).results)).ret
    ELSE threads[t].res = "NotFoundError"

C16_ReadAfterWriteAlone ==
    (cfg.CACHE_ENABLED /\ At("L", "done") /\ threads["W"].res = "ok" /\ At("G", "idle")) =>
        ObservesStore("L")

\* the late get_entity returned the guide that had been deleted before it started
C16_DeletedGuideServed ==
    /\ cfg.CACHE_ENABLED /\ At("L", "done")
    /\ threads["W"].op = "delete_entity" /\ threads["W"].res = "ok"
    /\ threads["L"].res = "ok"

\* ---------------------------------------------------------------- elastic.py: the client pool
\* ElasticsearchClientSingleton.get_client, one statement per step.  A client
\* is named by the thread that built it and its position in that thread's loop.
Calling(c, pc) == callers[c].pc = pc
\* what a call of get_client leaves alone: the catalog's stores and requests
service == <<orgs, threads, cfg, guides, artifacts, objects, cache, now, nextUuid, last, extra>>
Step(c, pc) == callers' = [callers EXCEPT ![c].pc = pc]

\* a thread calls get_client()
GetClient(c) ==
    /\ Calling(c, "idle")
    /\ callers[c].calls < MaxCalls
    /\ callers' = [callers EXCEPT ![c].pc = "check", ![c].calls = @ + 1, ![c].i = 0]
    /\ UNCHANGED <<pool, counter, lock, bootstraps, picked, service>>

\* if not self._pool: self._initialize_elasticsearch()
CheckPool(c) ==
    /\ Calling(c, "check")
    /\ Step(c, IF pool = <<>> THEN "append" ELSE "acquire")
    /\ UNCHANGED <<pool, counter, lock, bootstraps, picked, service>>

\* _initialize_elasticsearch: one turn of the loop, cls._pool.append(client);
\* after pool_size turns the loop is left for cls._bootstrap()
AppendClient(c) ==
    /\ Calling(c, "append")
    /\ pool' = Append(pool, [by |-> c, call |-> callers[c].calls, n |-> callers[c].i])
    /\ callers' = [callers EXCEPT ![c].i = @ + 1,
                                  ![c].pc = IF callers[c].i + 1 = PoolSize THEN "bootstrap"
                                            ELSE "append"]
    /\ UNCHANGED <<counter, lock, bootstraps, picked, service>>

\* cls._bootstrap(): the indices are created where missing
Bootstrap(c) ==
    /\ Calling(c, "bootstrap")
    /\ bootstraps' = bootstraps + 1
    /\ Step(c, "acquire")
    /\ UNCHANGED <<pool, counter, lock, picked, service>>

\* _select_pool_item entered without taking cls._lock
AcquireUnlocked(c) ==
    /\ Calling(c, "acquire")
    /\ Step(c, "index")
    /\ UNCHANGED <<pool, counter, lock, bootstraps, picked, service>>

\* _select_pool_item: with cls._lock
Acquire(c) ==
    /\ Calling(c, "acquire")
    /\ lock = NoneV
    /\ lock' = c
    /\ Step(c, "index")
    /\ UNCHANGED <<pool, counter, bootstraps, picked, service>>

\* index = cls._counter % len(cls._pool)
ReadIndex(c) ==
    /\ Calling(c, "index")
    /\ callers' = [callers EXCEPT ![c].pc = "increment",
                                  ![c].k = counter,
                                  ![c].index = counter % Len(pool),
                                  ![c].len = Len(pool),
                                  ![c].booted = bootstraps]
    /\ UNCHANGED <<pool, counter, lock, bootstraps, picked, service>>

\* cls._counter += 1
Increment(c) ==
    /\ Calling(c, "increment")
    /\ counter' = callers[c].k + 1
    /\ Step(c, "return")
    /\ UNCHANGED <<pool, lock, bootstraps, picked, service>>

\* return cls._pool[index], the lock is released
ReturnClient(c) ==
    /\ Calling(c, "return")
    /\ picked' = Append(picked, [by |-> c, k |-> callers[c].k, index |-> callers[c].index,
                                 client |-> pool[callers[c].index + 1],
                                 len |-> callers[c].len, booted |-> callers[c].booted])
    /\ lock' = IF lock = c THEN NoneV ELSE lock
    /\ Step(c, "idle")
    /\ UNCHANGED <<pool, counter, bootstraps, service>>

NextPool ==
    \E c \in Callers :
        \/ GetClient(c)
        \/ CheckPool(c)
        \/ AppendClient(c)
        \/ Bootstrap(c)
        \/ Acquire(c)
        \/ ReadIndex(c)
        \/ Increment(c)
        \/ ReturnClient(c)

SpecPool == Init /\ [][NextPool]_vars

\* ---------------------------------------------------------------- C19
\* C19: under any interleaving of concurrent first calls to get_client the
\* pool is created exactly once and holds exactly ELASTICSEARCH_POOL_SIZE
\* clients, the bootstrap ran once, and no caller got a client from a
\* partially built pool.
C19_PoolBuiltOnce ==
    /\ Len(pool) <= PoolSize
    /\ bootstraps <= 1
    /\ \A j \in 1..Len(picked) : picked[j].len = PoolSize /\ picked[j].booted = 1

\* a single thread does get that: its first call builds the whole pool and
\* bootstraps before it selects
C19_PoolBuiltOnceByOneThread ==
    (callers["c2"].calls = 0) =>
        /\ Len(pool) <= PoolSize
        /\ bootstraps <= 1
        /\ \A j \in 1..Len(picked) : picked[j].len = PoolSize /\ picked[j].booted = 1

\* a caller was handed a client while the pool held fewer clients than
\* configured and no bootstrap had run
C19_ClientFromPartialPool ==
    \E j \in 1..Len(picked) : picked[j].len < PoolSize /\ picked[j].booted = 0

\* ---------------------------------------------------------------- C20
\* C20: once the pool of N clients is built, selection is round-robin under
\* any interleaving of callers: the counter is incremented exactly once per
\* selection, the k-th selection returns client k mod N, and any N
\* consecutive selections return each client once.
C20_RoundRobin ==
    /\ counter \in {Len(picked), Len(picked) + 1}
    /\ \A j \in 1..Len(picked) :
          /\ picked[j].k = j - 1
          /\ picked[j].len = PoolSize =>
                (/\ picked[j].index = (j - 1) % PoolSize
                 /\ picked[j].client = pool[((j - 1) % PoolSize) + 1])
    /\ \A j \in 1..Len(picked) :
          (/\ j + PoolSize - 1 <= Len(picked)
           /\ \A m \in j..(j + PoolSize - 1) : picked[m].len = PoolSize) =>
              {picked[m].client : m \in j..(j + PoolSize - 1)} =
                  {pool[n] : n \in 1..PoolSize}

\* N consecutive selections from the built pool, made by both threads
C20_Witness ==
    /\ Len(pool) = PoolSize
    /\ \E j \in 1..Len(picked) :
          /\ j + PoolSize - 1 <= Len(picked)
          /\ \A m \in j..(j + PoolSize - 1) : picked[m].len = PoolSize
          /\ {picked[m].by : m \in j..(j + PoolSize - 1)} = Callers

\* ---------------------------------------------------------------- minio.py: the client pair
\* MinioClientSingleton.get_client / get_admin, one statement per step.  A
\* PoolManager is named by its number in the order of construction; the client
\* and the admin are named by the PoolManager they were built on.
catalog == <<orgs, threads, cfg, guides, artifacts, objects, cache, now, nextUuid, last>>
notMinio == <<catalog, poolVars, boot, creating>>
InMinio(c, pc) == mthreads[c].pc = pc
MinioStep(c, pc) == mthreads' = [mthreads EXCEPT ![c].pc = pc]
MinioOps == {"get_client", "get_admin"}

\* a thread calls MinioClientSingleton.get_client() or get_admin()
MinioGet(c, op) ==
    /\ InMinio(c, "idle")
    /\ mthreads[c].calls < MaxCalls
    /\ mthreads' = [mthreads EXCEPT ![c].pc = "check", ![c].op = op, ![c].calls = @ + 1,
                                    ![c].waited = FALSE]
    /\ UNCHANGED <<minio, handed, notMinio>>

\* if not cls._initialized: cls._initialize()
CheckInitialized(c) ==
    /\ InMinio(c, "check")
    /\ MinioStep(c, IF minio.initialized THEN "return" ELSE "lock")
    /\ UNCHANGED <<minio, handed, notMinio>>

\* _initialize: with cls._lock
InitializeLock(c) ==
    /\ InMinio(c, "lock")
    /\ minio.lock = NoneV
    /\ minio' = [minio EXCEPT !.lock = c]
    /\ mthreads' = [mthreads EXCEPT ![c].pc = "recheck", ![c].waited = minio.built > 0]
    /\ UNCHANGED <<handed, notMinio>>

\* _initialize without the second test of cls._initialized
RecheckSkipped(c) ==
    /\ InMinio(c, "recheck")
    /\ MinioStep(c, "pool")
    /\ UNCHANGED <<minio, handed, notMinio>>

\* _initialize: if cls._initialized: return (the lock is released)
InitializeRecheck(c) ==
    /\ InMinio(c, "recheck")
    /\ IF minio.initialized
       THEN /\ minio' = [minio EXCEPT !.lock = NoneV]
            /\ MinioStep(c, "return")
       ELSE /\ MinioStep(c, "pool")
            /\ UNCHANGED minio
    /\ UNCHANGED <<handed, notMinio>>

\* pool = urllib3.PoolManager(...)
BuildPool(c) ==
    /\ InMinio(c, "pool")
    /\ minio' = [minio EXCEPT !.built = @ + 1]
    /\ mthreads' = [mthreads EXCEPT ![c].pc = "client", ![c].pool = minio.built + 1]
    /\ UNCHANGED <<handed, notMinio>>

\* cls.client = Minio(..., http_client=pool)
BuildClient(c) ==
    /\ InMinio(c, "client")
    /\ minio' = [minio EXCEPT !.client = [kind |-> "Minio", pool |-> mthreads[c].pool]]
    /\ MinioStep(c, "admin")
    /\ UNCHANGED <<handed, notMinio>>

\* cls.admin = MinioAdmin(..., http_client=pool)
BuildAdmin(c) ==
    /\ InMinio(c, "admin")
    /\ minio' = [minio EXCEPT !.admin = [kind |-> "MinioAdmin", pool |-> mthreads[c].pool]]
    /\ MinioStep(c, "flag")
    /\ UNCHANGED <<handed, notMinio>>

\* cls._initialized = True, the end of the with block
SetInitialized(c) ==
    /\ InMinio(c, "flag")
    /\ minio' = [minio EXCEPT !.initialized = TRUE, !.lock = NoneV]
    /\ MinioStep(c, "return")
    /\ UNCHANGED <<handed, notMinio>>

\* return cls.client / return cls.admin
ReturnInstance(c) ==
    /\ InMinio(c, "return")
    /\ handed' = Append(handed, [by |-> c, op |-> mthreads[c].op, waited |-> mthreads[c].waited,
                                 ret |-> IF mthreads[c].op = "get_client" THEN minio.client
                                         ELSE minio.admin])
    /\ MinioStep(c, "idle")
    /\ UNCHANGED <<minio, notMinio>>

NextMinio ==
    \E c \in Callers :
        \/ \E op \in MinioOps : MinioGet(c, op)
        \/ CheckInitialized(c)
        \/ InitializeLock(c)
        \/ InitializeRecheck(c)
        \/ BuildPool(c)
        \/ BuildClient(c)
        \/ BuildAdmin(c)
        \/ SetInitialized(c)
        \/ ReturnInstance(c)

SpecMinio == Init /\ [][NextMinio]_vars

\* ---------------------------------------------------------------- C21
\* C21: under any interleaving of concurrent get_client and get_admin calls
\* the connection pool and the client/admin pair are constructed exactly
\* once, every caller receives the same client (respectively admin)
\* instance, and no caller receives an unset (None) client.
C21_BuiltOnceAndShared ==
    /\ minio.built <= 1
    /\ \A j \in 1..Len(handed) :
          /\ handed[j].ret # None
          /\ minio.built = 1
          /\ handed[j].ret = [kind |-> IF handed[j].op = "get_client" THEN "Minio"
                                       ELSE "MinioAdmin",
                              pool |-> 1]
    /\ \A j, m \in 1..Len(handed) :
          handed[j].op = handed[m].op => handed[j].ret = handed[m].ret

\* a caller that found the flag unset, waited for the lock while the other
\* thread was constructing, and then returned; both operations were served
C21_Witness ==
    /\ \E j \in 1..Len(handed) : handed[j].waited
    /\ {handed[j].op : j \in 1..Len(handed)} = MinioOps
    /\ {handed[j].by : j \in 1..Len(handed)} = Callers

\* ---------------------------------------------------------------- list and fetch
\* Guide.list / Guide.fetch default, used when limit is None or 0 (limit or 100)
DefaultLimit == 100

Min(a, b) == IF a <= b THEN a ELSE b

\* the documents the query {"bool": {"must_not": {"term": {"status": "deleted"}}}} matches
not_deleted(index) == {u \in DOMAIN index : index[u]["status"] # "deleted"}

\* The orders in which the store may return the matching documents (the query
\* gives no sort): the sequences without repetition over all of them.
HitOrders(index) ==
    {h \in [1..Cardinality(not_deleted(index)) -> not_deleted(index)] :
        \A j, m \in 1..Cardinality(not_deleted(index)) : h[j] = h[m] => j = m}

\* "from": offset, "size": size applied to the hits
page(hits, size, offset) ==
    [j \in 1..(IF Len(hits) > offset THEN Min(size, Len(hits) - offset) ELSE 0) |->
        hits[offset + j]]

\* ELASTIC_CLIENT.list_entities(index_name, size, offset): the ids of the hits
es_list_entities(hits, size, offset) == page(hits, size, offset)

\* ELASTIC_CLIENT.fetch_entities(index_name, limit, offset): the _source of the hits
es_fetch_entities(index, hits, limit, offset) ==
    [j \in DOMAIN page(hits, limit, offset) |-> index[page(hits, limit, offset)[j]]]

\* limit or 100, offset or 0; an Optional[int] is <<>> for None and <<n>> for n
or_default(v, d) == IF v = <<>> THEN d ELSE IF v[1] = 0 THEN d ELSE v[1]

\* Guide.list(limit, offset)
Guide_list(hits, limit, offset) ==
    es_list_entities(hits, or_default(limit, DefaultLimit), or_default(offset, 0))

\* Guide.fetch(limit, offset)
Guide_fetch(index, hits, limit, offset) ==
    es_fetch_entities(index, hits, or_default(limit, DefaultLimit), or_default(offset, 0))

\* GUIDE.list_entities(limit, offset)
ListEntities(cls, limit, offset, hits) ==
    /\ last' = Done("list_entities", cls, None, [limit |-> limit, offset |-> offset], hits,
                    "ok", Guide_list(hits, limit, offset), 1)
    /\ UNCHANGED <<aux, cfg, guides, artifacts, objects, cache, now, nextUuid>>

\* GUIDE.fetch_entities(limit, offset)
FetchEntities(cls, limit, offset, hits) ==
    /\ last' = Done("fetch_entities", cls, None, [limit |-> limit, offset |-> offset], hits,
                    "ok", Guide_fetch(guides, hits, limit, offset), 1)
    /\ UNCHANGED <<aux, cfg, guides, artifacts, objects, cache, now, nextUuid>>

\* the query parameters of GET /guides and GET /guides/fetch
Limits == {<<>>, <<0>>, <<1>>, <<2>>}
Offsets == {<<>>, <<0>>, <<1>>}

\* guides created (by the Guide class of entity.py, the one that stores them),
\* patched, also to status "deleted", and read (by the Guide class of
\* entities/guides.py), listed and fetched
NextList ==
    \/ \E spec \in {[urn |-> s, title |-> "v1", content |-> "v1"] : s \in Slugs},
          creator \in Creators :
          CreateEntity("entity", spec, creator, 0, TRUE)
    \/ \E i \in GuideUrns, spec \in {[status |-> "deleted"], [title |-> "v2"]} :
          PatchEntity("entities", i, spec, TRUE)
    \/ \E i \in GuideUrns : GetEntity("entities", i, TRUE)
    \/ \E cls \in GuideClasses, limit \in Limits, offset \in Offsets, hits \in HitOrders(guides) :
          ListEntities(cls, limit, offset, hits)
    \/ \E cls \in GuideClasses, limit \in Limits, offset \in Offsets, hits \in HitOrders(guides) :
          FetchEntities(cls, limit, offset, hits)

SpecList == Init /\ [][NextList]_vars

\* ---------------------------------------------------------------- C22
Listed == last.op \in {"list_entities", "fetch_entities"}
Requested(v, d) == IF v = <<>> THEN d ELSE v[1]
ListedUrn(j) == IF last.op = "list_entities" THEN last.ret[j] ELSE last.ret[j]["urn"]

\* what C22 says of a list_entities or fetch_entities call; size is the
\* requested size, the default when none was given
ListContract(size, offset) ==
    /\ \A j \in 1..Len(last.ret) : guides[ListedUrn(j)]["status"] # "deleted"
    /\ Len(last.ret) <= size
    /\ Len(last.ret) = (IF Len(last.pre) > offset THEN Min(size, Len(last.pre) - offset) ELSE 0)
    /\ \A j \in 1..Len(last.ret) : ListedUrn(j) = last.pre[offset + j]
    /\ last.op = "fetch_entities" => \A j \in 1..Len(last.ret) : last.ret[j] = guides[ListedUrn(j)]

\* C22: list_entities and fetch_entities never return a document whose
\* status equals "deleted", return at most the requested size/limit and skip
\* exactly offset matching documents; a guide whose status was patched to
\* "deleted" disappears from both while it stays retrievable through
\* get_entity.
C22_ListAndFetch ==
    /\ Listed => ListContract(Requested(last.spec.limit, DefaultLimit),
                              Requested(last.spec.offset, 0))
    /\ (/\ last.op = "get_entity"
        /\ last.ident \in DOMAIN guides
        /\ guides[last.ident]["status"] = "deleted") =>
            (last.res = "ok" /\ last.ret["status"] = "deleted")

\* the same for the calls that ask for at least one document
C22_ListAndFetchPositiveLimit ==
    /\ (Listed /\ last.spec.limit # <<0>>) =>
           ListContract(Requested(last.spec.limit, DefaultLimit), Requested(last.spec.offset, 0))
    /\ (/\ last.op = "get_entity"
        /\ last.ident \in DOMAIN guides
        /\ guides[last.ident]["status"] = "deleted") =>
            (last.res = "ok" /\ last.ret["status"] = "deleted")

\* a call with limit 0 returned documents
C22_ZeroLimitReturnsDocuments ==
    /\ Listed
    /\ last.spec.limit = <<0>>
    /\ Len(last.ret) > 0

\* a guide patched to "deleted" is stored and the call does not return it
C22_DeletedSkipped ==
    /\ Listed
    /\ \E u \in DOMAIN guides : guides[u]["status"] = "deleted"
    /\ last.ret = <<>>

\* of two stored guides the call skipped one and returned the other
C22_OffsetSkipped ==
    /\ Listed
    /\ Len(last.pre) = 2
    /\ last.spec.offset = <<1>>
    /\ Len(last.ret) = 1

\* ---------------------------------------------------------------- app/service.py: Stores.bootstrap
\* The prototype's bootstrap, one store call per step.  A call to the search
\* store or to the graph database returns or raises; which is an input.
BOOTSTRAP_CYPHER == <<"recipe_urn_unique", "guide_urn_unique", "policy_urn_unique">>
BootIndices == <<"recipes", "guides", "policies">>
notBoot == <<catalog, poolVars, minioVars, creating>>

\* where bootstrap goes once index i is there: the next index, or the session
after_index(i) == IF i = Len(BootIndices) THEN "session" ELSE "exists"

\* if not self.es.indices.exists(index=...): the call raises, or tells whether
\* the index is there
IndexExists(ok, present) ==
    /\ boot.pc \in {"start", "exists"}
    /\ boot' = [boot EXCEPT !.pc = IF ~ok THEN "raised"
                                  ELSE IF present THEN after_index(boot.i) ELSE "create",
                            !.i = IF ok /\ present /\ boot.i < Len(BootIndices)
                                  THEN boot.i + 1 ELSE boot.i]
    /\ UNCHANGED notBoot

\* self.es.indices.create(index=..., body=...)
IndexCreate(ok) ==
    /\ boot.pc = "create"
    /\ boot' = [boot EXCEPT !.pc = IF ok THEN after_index(boot.i) ELSE "raised",
                            !.created = IF ok THEN @ \cup {BootIndices[boot.i]} ELSE @,
                            !.i = IF ok /\ boot.i < Len(BootIndices) THEN boot.i + 1 ELSE boot.i]
    /\ UNCHANGED notBoot

\* with self.driver.session() as s
OpenSession(ok) ==
    /\ boot.pc = "session"
    /\ boot' = [boot EXCEPT !.pc = IF ok THEN "run" ELSE "raised", !.i = 1]
    /\ UNCHANGED notBoot

\* s.run(q) outside a try block: its failure leaves bootstrap
RunUnguarded(ok) ==
    /\ boot.pc = "run"
    /\ boot.i <= Len(BOOTSTRAP_CYPHER)
    /\ boot' = [boot EXCEPT !.attempts = Append(@, boot.i),
                            !.failed = IF ok THEN @ ELSE @ \cup {boot.i},
                            !.i = IF ok THEN @ + 1 ELSE @,
                            !.pc = IF ok THEN "run" ELSE "raised"]
    /\ UNCHANGED notBoot

\* for q in BOOTSTRAP_CYPHER: try: s.run(q) except Exception: print(...)
RunStatement(ok) ==
    /\ boot.pc = "run"
    /\ boot.i <= Len(BOOTSTRAP_CYPHER)
    /\ boot' = [boot EXCEPT !.attempts = Append(@, boot.i),
                            !.failed = IF ok THEN @ ELSE @ \cup {boot.i},
                            !.i = @ + 1]
    /\ UNCHANGED notBoot

\* the loop is over: the session is closed and bootstrap returns
CloseSession ==
    /\ boot.pc = "run"
    /\ boot.i > Len(BOOTSTRAP_CYPHER)
    /\ boot' = [boot EXCEPT !.pc = "returned"]
    /\ UNCHANGED notBoot

NextBoot ==
    \/ \E ok \in BOOLEAN, present \in BOOLEAN : IndexExists(ok, present)
    \/ \E ok \in BOOLEAN : IndexCreate(ok)
    \/ \E ok \in BOOLEAN : OpenSession(ok)
    \/ \E ok \in BOOLEAN : RunStatement(ok)
    \/ CloseSession

SpecBoot == Init /\ [][NextBoot]_vars

\* ---------------------------------------------------------------- C23
\* C23: in Stores.bootstrap every graph constraint statement of
\* BOOTSTRAP_CYPHER is attempted exactly once, in order, and a failure of any
\* subset of them neither skips the remaining statements nor makes bootstrap
\* raise.
C23_AllStatementsAttempted ==
    /\ \A j \in 1..Len(boot.attempts) : boot.attempts[j] = j
    /\ boot.pc = "returned" => Len(boot.attempts) = Len(BOOTSTRAP_CYPHER)
    /\ boot.pc = "raised" => boot.attempts = <<>>
    /\ (boot.pc = "run" /\ boot.i <= Len(BOOTSTRAP_CYPHER)) => Len(boot.attempts) = boot.i - 1

\* bootstrap returned although the first and the last statement failed
C23_Witness ==
    /\ boot.pc = "returned"
    /\ boot.failed = {1, Len(BOOTSTRAP_CYPHER)}

\* ---------------------------------------------------------------- get_identifier
\* the collection of the entity called name
collection(name) ==
    IF name = "guide" THEN guides ELSE IF name = "artifact" THEN artifacts ELSE orgs

EntityNames == {"guide", "artifact", "organization"}

\* the identifiers handed to get_identifier: URNs of the entity's own type and
\* of another type, bare slugs, UUIDs
Identifiers ==
    {Urn(t, s) : t \in EntityNames, s \in Slugs} \cup {Raw(s) : s \in Slugs} \cup Uuids

\* again(name, identifier, r): get_identifier applied to what it returned
again(name, r) ==
    IF r.err = "ok" THEN get_identifier(name, collection(name), r.urn) ELSE r

\* <ENTITY>.get_identifier(identifier), and get_identifier of its result
GetIdentifier(name, identifier) ==
    \E r \in {get_identifier(name, collection(name), identifier)} :
        /\ last' = Done("get_identifier", name, identifier, Empty, again(name, r), r.err,
                        r.urn, r.es)
        /\ UNCHANGED <<aux, cfg, guides, artifacts, objects, cache, now, nextUuid>>

\* guides are stored and removed, identifiers of every shape are normalised
NextIdent ==
    \/ \E spec \in CreateSpecs(Slugs), creator \in Creators :
          CreateEntity("entity", spec, creator, 0, TRUE)
    \/ \E i \in GuideUrns : DeleteEntity("entity", i, TRUE)
    \/ \E name \in EntityNames, identifier \in Identifiers : GetIdentifier(name, identifier)

SpecIdent == Init /\ [][NextIdent]_vars

\* ---------------------------------------------------------------- C24
Identified == last.op = "get_identifier"
StoredWithId(name, n) == {k \in DOMAIN collection(name) : collection(name)[k]["id"] = n}

\* C24: get_identifier maps its input by exactly three cases: a UUID-shaped
\* input is returned unchanged for the artifact entity and otherwise resolved
\* to the URN of the stored document with that id; an input already starting
\* with urn:<type>: is returned unchanged; any other input x becomes
\* urn:<type>:x.  For non-UUID inputs the function is idempotent and makes no
\* store call.
C24_ThreeCases ==
    Identified =>
        /\ (last.ident.kind = "uuid" /\ last.cls = "artifact") =>
               (last.res = "ok" /\ last.ret = last.ident /\ last.es = 0)
        /\ (last.ident.kind = "uuid" /\ last.cls # "artifact") =>
               \A k \in StoredWithId(last.cls, last.ident.uuid) :
                   last.res = "ok" /\ last.ret = collection(last.cls)[k]["urn"]
        /\ (last.ident.kind = "urn" /\ last.ident.type = last.cls) =>
               (last.res = "ok" /\ last.ret = last.ident /\ last.es = 0)
        /\ (last.ident.kind = "urn" /\ last.ident.type # last.cls) =>
               /\ last.res = "ok" /\ last.es = 0
               /\ last.ret.kind = "urn" /\ last.ret.type = last.cls
               /\ last.ret.name = "urn:" \o last.ident.type \o ":" \o last.ident.name
        /\ last.ident.kind = "raw" =>
               (last.res = "ok" /\ last.ret = Urn(last.cls, last.ident.name) /\ last.es = 0)
        /\ last.ident.kind # "uuid" =>
               (last.pre.err = "ok" /\ last.pre.urn = last.ret /\ last.pre.es = 0)

\* a UUID was resolved to the URN of the guide stored with that id
C24_Witness ==
    /\ Identified
    /\ last.ident.kind = "uuid"
    /\ last.cls = "guide"
    /\ StoredWithId("guide", last.ident.uuid) # {}
    /\ last.res = "ok"

\* a URN of another type was taken as a slug, and the result was left alone
\* when passed in again
C24_ForeignUrnWrapped ==
    /\ Identified
    /\ last.ident.kind = "urn"
    /\ last.ident.type # last.cls
    /\ last.pre.urn = last.ret

\* ---------------------------------------------------------------- C25
OrgPatched(l) == l.op = "patch_entity" /\ l.cls = "organization"

\* C25: patching an existing organization changes only the fields explicitly
\* set in the patch, every other stored field keeps its pre-patch value, and
\* patching a URN that is not stored does not create a document.
C25_OrgPatchFrame ==
    [][OrgPatched(last') =>
           \A u \in DOMAIN orgs' :
               /\ u \in DOMAIN orgs
               /\ \A k \in DOMAIN orgs[u] \ (DOMAIN last'.spec \cup {"updated_at"}) :
                      k \in DOMAIN orgs'[u] /\ orgs'[u][k] = orgs[u][k]]_vars

\* what the patch does keep: the documents stored under other URNs, and the
\* fields it sets are stored with the values given
C25_OrgPatchSetsFields ==
    [][(OrgPatched(last') /\ orgs' # orgs) =>
           \A u \in DOMAIN orgs' :
               \/ u \in DOMAIN orgs /\ orgs'[u] = orgs[u]
               \/ \A k \in DOMAIN last'.spec : orgs'[u][k] = last'.spec[k]]_vars

\* a patch of a URN under which nothing was stored left a document there
C25_PatchCreatedOrganization ==
    /\ OrgPatched(last)
    /\ last.pre = None
    /\ last.ident \in DOMAIN orgs

\* a patch that set only the title erased the stored description
C25_UnsetFieldErased ==
    /\ OrgPatched(last)
    /\ last.pre # None
    /\ last.spec = [title |-> "v1"]
    /\ last.pre["description"] = "d"
    /\ last.ident \in DOMAIN orgs
    /\ orgs[last.ident]["description"] = NoneV

\* ---------------------------------------------------------------- C26
\* the guide operations together with list_entities and fetch_entities
NextDeleted ==
    \/ Next
    \/ \E cls \in GuideClasses, limit \in {<<>>, <<1>>}, offset \in {<<>>},
          hits \in HitOrders(guides) :
          ListEntities(cls, limit, offset, hits)
    \/ \E cls \in GuideClasses, limit \in {<<>>, <<1>>}, offset \in {<<>>},
          hits \in HitOrders(guides) :
          FetchEntities(cls, limit, offset, hits)

SpecDeleted == Init /\ [][NextDeleted]_vars

\* the last operation was a delete_entity of a stored guide that returned its
\* confirmation payload
DeleteConfirmed ==
    /\ last.op = "delete_entity"
    /\ last.cls \in GuideClasses
    /\ last.pre # None
    /\ last.res = "ok"

\* the operation after it: a get_entity of that URN fails with NotFoundError,
\* a list or fetch does not contain it
AbsentAfterDelete ==
    /\ (/\ last'.op = "get_entity"
        /\ last'.ident \in {last.ret.deleted, Raw(last.ret.deleted.name)}) =>
           last'.res = "NotFoundError"
    /\ last'.op = "list_entities" =>
           \A j \in 1..Len(last'.ret) : last'.ret[j] # last.ret.deleted
    /\ last'.op = "fetch_entities" =>
           \A j \in 1..Len(last'.ret) : last'.ret[j]["urn"] # last.ret.deleted

C26_DeletedIsGoneUncached ==
    [][(DeleteConfirmed /\ ~cfg.CACHE_ENABLED) => AbsentAfterDelete]_vars

\* get_entity returned a guide that is not in the store
C26_DeletedGuideReturned ==
    /\ last.op = "get_entity"
    /\ last.cls \in GuideClasses
    /\ last.ident.kind = "urn"
    /\ last.ident \notin DOMAIN guides
    /\ last.res = "ok"

\* ---------------------------------------------------------------- C27
\* a request whose handler returned a value (and whose result transform returns)
HandlerReturned == RenderInvoked /\ last.pre.kind = "return"

\* the outcome of such a request when no log call fails
OutcomeOfReturn ==
    IF last.pre.value = Response THEN Returned(Response)
    ELSE Returned(ok_envelope(map_result(last.spec.mapper, last.pre.value)))

\* C27: a failure of a logging call inside the render wrapper (the api.start
\* log or the api.end log) never changes the outcome of the request: a
\* handler that returned a value still yields its success envelope or
\* pass-through response.
C27_LoggingNeverBreaks == HandlerReturned => last.ret = OutcomeOfReturn

\* the half that holds: a failure of the api.start log changes nothing
C27_StartLogNeverBreaks == (HandlerReturned /\ last.spec.logEnd) => last.ret = OutcomeOfReturn

\* the handler returned a document, the api.end log call raised, and the
\* request ended in the 500-level error made from that exception
C27_EndLogBrokeRequest ==
    /\ HandlerReturned
    /\ last.pre.value = [urn |-> "a"]
    /\ ~last.spec.logEnd /\ last.spec.logErr /\ last.spec.logStart
    /\ last.ret = from_unexpected("LoggingError")

\* the api.start log call raised and the request still gave its envelope
C27_StartLogFailed ==
    /\ HandlerReturned
    /\ ~last.spec.logStart
    /\ last.ret = OutcomeOfReturn

\* ---------------------------------------------------------------- concurrent Guide.create
\* Two Guide.create calls for one slug, each in two steps: the existence check
\* and the write.  The other call may run between them.
RaceSlug == "a"
creatingOnly == <<orgs, threads, poolVars, minioVars, boot, cfg, artifacts, objects, last>>

\* Guide.create is entered with a body that passes validation
StartCreate(t, cls, spec) ==
    /\ creating[t].pc = "idle"
    /\ GuideCreation_valid(spec)
    /\ creating' = [creating EXCEPT ![t].pc = "check", ![t].cls = cls, ![t].spec = spec]
    /\ UNCHANGED <<guides, cache, now, nextUuid, creatingOnly>>

\* the existence check: self.get_entity(urn=guide_data.urn) in entity.py,
\* self.validate_existence("urn:guide:" + guide_data.urn) in entities/guides.py
CheckExisting(t) ==
    /\ creating[t].pc = "check"
    /\ \E r \in {IF creating[t].cls = "entity"
                 THEN get_entity("entity", guides, artifacts, cache,
                                 Raw(creating[t].spec["urn"]), TRUE)
                 ELSE validate_existence(cache, Urn("guide", creating[t].spec["urn"]), TRUE)} :
          /\ cache' = r.cache
          /\ creating' = [creating EXCEPT ![t].pc = "write",
                                          ![t].existing = [err |-> r.err, cache |-> r.cache,
                                                           es |-> 1]]
    /\ UNCHANGED <<guides, now, nextUuid, creatingOnly>>

\* the rest of Guide.create: ConflictError, or the document is stamped and
\* handed to ELASTIC_CLIENT.index_entity, and the call returns
WriteGuide(t) ==
    /\ creating[t].pc = "write"
    /\ \E w \in {IF creating[t].cls = "entity"
                 THEN create_unless_found(creating[t].existing, guides, creating[t].spec,
                                          "alice", 0)
                 ELSE create_unless_validated(creating[t].existing, guides, creating[t].spec,
                                              "alice", 0)} :
          /\ w.t <= MaxClock
          /\ w.u <= MaxUuid
          /\ guides' = w.g
          /\ now' = w.t
          /\ nextUuid' = w.u
          /\ creating' = [creating EXCEPT
                             ![t].pc = "done",
                             ![t].res = w.err,
                             ![t].doc = IF w.err = "ok"
                                        THEN w.g[Urn("guide", creating[t].spec["urn"])]
                                        ELSE None]
    /\ UNCHANGED <<cache, creatingOnly>>

NextCreate ==
    \/ \E t \in CreateThreads, cls \in GuideClasses,
          spec \in {[urn |-> RaceSlug, title |-> title, content |-> "v1"] : title \in {"v1", "v2"}} :
          StartCreate(t, cls, spec)
    \/ \E t \in CreateThreads : CheckExisting(t)
    \/ \E t \in CreateThreads : WriteGuide(t)

SpecCreate == Init /\ [][NextCreate]_vars

\* ---------------------------------------------------------------- C28
Succeeded == {t \in CreateThreads : creating[t].pc = "done" /\ creating[t].res = "ok"}

\* C28: when two guide creations with the same slug run concurrently, under
\* every interleaving at most one of them returns success, and the stored
\* document is the one written by the successful creation (it is never
\* overwritten by the other).
C28_OneCreationWins ==
    /\ Cardinality(Succeeded) <= 1
    /\ \A t \in Succeeded : guides[Urn("guide", RaceSlug)] = creating[t].doc

\* unless both existence checks missed the guide, one creation wins
BothMissed ==
    \A t \in CreateThreads :
        /\ creating[t].pc \in {"write", "done"}
        /\ creating[t].existing.err = "NotFoundError"

C28_OneCreationWinsUnlessBothMissed == ~BothMissed => C28_OneCreationWins

\* both creations returned without an error and the document of the first
\* was replaced by that of the second
C28_BothCreated ==
    /\ Succeeded = CreateThreads
    /\ \E t \in CreateThreads : guides[Urn("guide", RaceSlug)] # creating[t].doc

\* ---------------------------------------------------------------- C29
\* the calls the last upload made to the object storage
UploadCalls == {last.mio[n] : n \in 1..Len(last.mio)}

\* the id the last upload generated: the counter's value once the object was
\* put, the next value when the upload returned before
UploadId == IF MinioCall("put_object", TRUE) \in UploadCalls THEN nextUuid ELSE nextUuid + 1

RecordExists(id) == \E k \in DOMAIN artifacts : artifacts[k]["id"] = id
ObjectExists(id) == \E o \in objects : o.id = id

NextPatchAll ==
    \/ \E spec \in CreateSpecs({"a"}), rok \in RedisOutcomes :
          CreateEntity("entity", spec, "alice", 0, rok)
    \/ \E i \in UrnsOf({"a"}) \cup Uuids, rok \in RedisOutcomes :
          GetEntity("entities", i, rok)
    \/ \E cls \in GuideClasses, i \in UrnsOf({"a"}) \cup Uuids, spec \in PatchSpecs,
          rok \in RedisOutcomes :
          PatchEntity(cls, i, spec, rok)
    \/ \E i \in {Urn("organization", "a"), Raw("a")}, spec \in OrgPatchSpecs,
          rok \in RedisOutcomes :
          OrgPatchEntity(i, spec, rok)

SpecPatchAll == Init /\ [][NextPatchAll]_vars

\* the cache entry of a URN: one value, or none
CacheEntry(c, urn) == IF urn \in DOMAIN c THEN <<c[urn]>> ELSE <<>>

\* the step is a patch_entity call that ends in an error
PatchFailed == last'.op = "patch_entity" /\ last'.res # "ok"

\* the URN the failed call resolved its identifier to, if it did
PatchTarget ==
    get_identifier(IF last'.cls = "organization" THEN "organization" ELSE "guide",
                   IF last'.cls = "organization" THEN orgs ELSE guides, last'.ident)

\* C30: a patch_entity call that ends in an error (invalid body, or a target
\* that does not exist) leaves the persisted documents and the cache entry of
\* that URN exactly as they were before the call.
C30_FailedPatchChangesNothing ==
    [][PatchFailed =>
          /\ guides' = guides
          /\ orgs' = orgs
          /\ artifacts' = artifacts
          /\ PatchTarget.err = "ok" =>
                CacheEntry(cache', PatchTarget.urn) = CacheEntry(cache, PatchTarget.urn)]_vars

\* a failed patch_entity of a guide leaves the persisted documents as they were
C30_FailedGuidePatchKeepsDocuments ==
    [][(PatchFailed /\ last'.cls # "organization") =>
          (guides' = guides /\ orgs' = orgs /\ artifacts' = artifacts)]_vars

\* a patch_entity of an organization that was not stored ended in an error and
\* left a document under its URN
C30_FailedPatchStoredOrganization ==
    /\ OrgPatched(last)
    /\ last.res # "ok"
    /\ last.pre = None
    /\ last.ident.kind = "urn"
    /\ last.ident \in DOMAIN orgs
=============================================================================
